---- MODULE Spec2Model ----
(***************************************************************************)
(* Verification model of the Abercrombie & Fitch scraping pipeline.        *)
(*                                                                         *)
(* Three programs of the repository are modelled over one set of           *)
(* variables; `prog` says which one a behaviour runs:                      *)
(*   "main"  main.py + api_scraper.py + database.py (API pipeline)         *)
(*   "ps"    product_scraper.py (offset-increment HTML driver)             *)
(*   "af"    src/scrapers/abercrombie_fitch.py (next-control driver)       *)
(*                                                                         *)
(* Strings are sequences of lexemes in which the separators "/", "?" and   *)
(* "#" are lexemes of their own, so that equality of sequences is equality *)
(* of the strings and prefix / split operations are computed as in Python. *)
(***************************************************************************)
EXTENDS Integers, Sequences, FiniteSets, TLC

\* ------------------------------------------------------------------ bounds
\* explicit products the site serves in one run of the API pipeline
MaxItems == 2
\* category runs handed to run_full_scrape
MaxCats == 2
\* largest max_pages argument tried (0 stands for None)
MaxPagesArg == 3

\* longest list handed to a deduplication on its own
MaxLen == 5
\* largest max_concurrent_pages tried
MaxConc == 2
\* largest max_products argument tried (0 stands for None)
MaxProductsArg == 2
\* the counters of the next-control driver saturate here: MaxCount stands for
\* MaxCount or more
MaxCount == 2
\* reads of a listing page that the log of a category run keeps
LogWindow == 3
\* breadcrumb elements of a product page
MaxCrumbs == 2
\* lexemes of a price text
MaxText == 5
\* URLs of a batch handed to _process_product_batch
MaxBatch == 3

\* ------------------------------------------------------- program constants
ITEMS_PER_PAGE == 90
Rows == 90
SafetyLimit == 1000

\* ----------------------------------------------------------------- strings
Origin == <<"https:", "/", "/", "www.abercrombie.com">>
ShopEu == <<"/", "shop", "/", "eu">>
EU_BASE_URL == Origin \o ShopEu

StartsWith(s, p) ==
    /\ Len(s) >= Len(p)
    /\ SubSeq(s, 1, Len(p)) = p

\* index of the first occurrence of lexeme t in s, or Len(s) + 1
RECURSIVE FirstIndex(_, _, _)
FirstIndex(s, t, i) ==
    IF i > Len(s) THEN Len(s) + 1
    ELSE IF s[i] = t THEN i
    ELSE FirstIndex(s, t, i + 1)

\* s.split(t)[0]
SplitHead(s, t) == SubSeq(s, 1, FirstIndex(s, t, 1) - 1)

\* '/p/' in s
HasProductMarker(s) ==
    \E i \in 1..(Len(s) - 2) : s[i] = "/" /\ s[i + 1] = "p" /\ s[i + 2] = "/"

\* scheme + host + path: the canonical URL of the glossary
Canonical(u) == SplitHead(SplitHead(u, "?"), "#")

\* sub in s, for texts cut into lexemes so that sub can only begin and end
\* where a lexeme does
Contains(s, sub) ==
    \E i \in 1..(Len(s) - Len(sub) + 1) : SubSeq(s, i, i + Len(sub) - 1) = sub

\* the set of the elements of a sequence
Range(seq) == {seq[i] : i \in 1..Len(seq)}

\* all sequences over S of length at most n
SeqsUpTo(S, n) == UNION {[1..k -> S] : k \in 0..n}

\* ------------------------------------------------------------------ state
VARIABLES
    prog,            \* which program runs: "main", "ps" or "af"
    pc,              \* control location of the running program
    max_pages,       \* the max_pages argument; 0 stands for None
    categories,      \* run_full_scrape: category runs still to do
    cat_kind,        \* scrape_category: "direct" (categoryId in URL) or "main"
    subs_left,       \* scrape_category: hardcoded subcategories still to do
    run_all,         \* run_full_scrape.all_products
    cat_all,         \* scrape_category.all_products
    sub_all,         \* scrape_subcategory.all_products
    start,           \* pagination offset
    page_num,        \* pagination page counter
    fetched,         \* offsets of the listing pages fetched in this category run
    listing_log,     \* what the last reads of a listing page returned in this
                     \* category run: the offset and the number of products
    served,          \* explicit products the site has served so far
    browsers,        \* browsers launched and not yet closed
    unique_products, \* run_full_scrape.unique_products
    products_with_embeddings, \* generate_embeddings.products_with_embeddings
    emb_idx,         \* generate_embeddings: index of the next product
    save_idx,        \* insert_products_batch: index of the next product
    store,           \* rows of the products table
    saved_count,     \* save_to_database result
    dd,              \* the last deduplication performed: site, input, output
    all_product_urls, \* get_all_product_urls.all_product_urls
    products,        \* scrape_all_products.products
    url_idx,         \* scrape_all_products: index of the next URL
    outcomes,        \* what was reported for each URL: records [url, result]
    dry_run,         \* AbercrombieFitchScraper.dry_run
    embedder,        \* whether self.embedder is set
    max_products,    \* the max_products argument; 0 stands for None
    max_concurrent_pages, \* config.scraping.max_concurrent_pages
    brand_gender,    \* config.brand.gender
    processed_urls,  \* AbercrombieFitchScraper.processed_urls
    products_found,  \* AbercrombieFitchScraper.products_found
    products_saved,  \* AbercrombieFitchScraper.products_saved
    total_processed, \* _scrape_category_page.total_processed
    product_urls,    \* _scrape_category_page.product_urls
    tasks,           \* _process_product_batch: state and page of each task
    products_to_save, \* _process_product_batch.products_to_save
    handed,          \* URLs handed to _process_product_batch so far, in order
    calls,           \* requests issued so far: records [op, url]
    stored_before,   \* the rows of the table when the run began
    cfg,             \* run_daily.py: the environment and the configuration file
    exit_code,       \* run_daily.py: the exit code, "none" while running
    fn               \* the last application of a parsing function: its name,
                     \* arguments and result

mvars == <<max_pages, categories, cat_kind, subs_left, run_all, cat_all, sub_all,
           start, page_num, fetched, listing_log, served, browsers, unique_products,
           products_with_embeddings, emb_idx, save_idx, store, saved_count,
           dd>>

pvars == <<all_product_urls, products, url_idx, outcomes>>

avars == <<dry_run, embedder, max_products, max_concurrent_pages, brand_gender,
           processed_urls,
           products_found, products_saved, total_processed, product_urls, tasks,
           products_to_save, handed, calls, stored_before>>

dvars == <<cfg, exit_code, fn>>

vars == <<prog, pc, mvars, pvars, avars, dvars>>

\* ------------------------------------------------ the site (API responses)
\* The products of the catalog API that the model follows one by one.  A
\* response lists `items` and, when `full`, further products up to Rows of
\* them, each with a title and a product URL of its own.
RawPool ==
    { [productPageUrl |-> ShopEu \o <<"/", "p", "/", "A">>, id |-> <<"1">>,
       name |-> "a", imageUrl |-> <<"/", "imgA">>],
      [productPageUrl |-> ShopEu \o <<"/", "p", "/", "A", "?", "q=1">>, id |-> <<>>,
       name |-> "a", imageUrl |-> <<"/", "imgA">>],
      [productPageUrl |-> <<"/", "p", "/", "B">>, id |-> <<>>,
       name |-> "b", imageUrl |-> <<>>],
      [productPageUrl |-> <<"p", "/", "C">>, id |-> <<"3">>,
       name |-> "c", imageUrl |-> Origin \o <<"/", "imgC">>],
      [productPageUrl |-> <<>>, id |-> <<>>,
       name |-> "n", imageUrl |-> <<"/", "imgN">>] }

Responses(room) ==
    {[full |-> f, items |-> s] : f \in BOOLEAN, s \in SeqsUpTo(RawPool, room)}

\* ------------------------------------------------------- api_scraper.py
build_product_url(product_path) ==
    IF product_path = <<>> THEN <<>>
    ELSE IF Head(product_path) \in {"http:", "https:"} THEN product_path
    ELSE IF StartsWith(product_path, ShopEu) THEN Origin \o product_path
    ELSE IF Head(product_path) = "/" THEN EU_BASE_URL \o product_path
    ELSE EU_BASE_URL \o <<"/">> \o product_path

extract_image_url(product) ==
    IF product.imageUrl = <<>> THEN <<>>
    ELSE IF Head(product.imageUrl) \in {"http:", "https:"} THEN product.imageUrl
    ELSE Origin \o product.imageUrl

\* hashlib.md5(text.encode()).hexdigest()
Md5(text) == <<"md5">> \o text

\* extract_products_from_response: the id of a product: the id of the API,
\* else "Generate ID from product URL if not available", else from the name
product_id(product) ==
    IF product.id # <<>> THEN product.id
    ELSE IF build_product_url(product.productPageUrl) # <<>>
    THEN Md5(build_product_url(product.productPageUrl))
    ELSE IF product.name # "" THEN Md5(<<product.name>>)
    ELSE <<>>

\* the product_info dictionary built for one product of a response; obj is
\* the identity of the dictionary object
ProductInfo(product, obj) ==
    [ id          |-> product_id(product),
      title       |-> product.name,
      product_url |-> build_product_url(product.productPageUrl),
      image_url   |-> extract_image_url(product),
      gender      |-> "MAN",
      embedding   |-> "unset",
      obj         |-> obj ]

RECURSIVE ExtractFrom(_, _, _)
ExtractFrom(products_data, i, obj0) ==
    IF i > Len(products_data) THEN <<>>
    ELSE LET info == ProductInfo(products_data[i], obj0 + i)
         IN  (IF info.title # "" \/ info.product_url # <<>>
              THEN <<info>> ELSE <<>>)
             \o ExtractFrom(products_data, i + 1, obj0)

extract_products_from_response(resp, obj0) == ExtractFrom(resp.items, 1, obj0)

\* len(products) for a response: the products followed one by one, and for a
\* full page the others up to Rows
ProductCount(resp, extracted) == IF resp.full THEN Rows ELSE Len(extracted)

\* "Remove duplicates based on product URL"
RECURSIVE UniqueFrom(_, _, _)
UniqueFrom(all_products, seen_urls, i) ==
    IF i > Len(all_products) THEN <<>>
    ELSE LET url == all_products[i].product_url
         IN  IF url # <<>> /\ url \notin seen_urls
             THEN <<all_products[i]>>
                  \o UniqueFrom(all_products, seen_urls \cup {url}, i + 1)
             ELSE UniqueFrom(all_products, seen_urls, i + 1)

\* a deduplication that keeps the last record seen for a URL
RECURSIVE LastFrom(_, _)
LastFrom(all_products, i) ==
    IF i > Len(all_products) THEN <<>>
    ELSE LET url == all_products[i].product_url
         IN  IF /\ url # <<>>
                /\ \A j \in (i + 1)..Len(all_products) :
                      all_products[j].product_url # url
             THEN <<all_products[i]>> \o LastFrom(all_products, i + 1)
             ELSE LastFrom(all_products, i + 1)

UniqueKeepingLast(all_products) == LastFrom(all_products, 1)

UniqueSubcategory(all_products) == UniqueFrom(all_products, {}, 1)
UniqueCategory(all_products) == UniqueFrom(all_products, {}, 1)
UniqueRun(all_products) == UniqueFrom(all_products, {}, 1)

\* ------------------------------------------------ main.py / api_scraper.py
\* run_daily.py and the parsing functions while another program runs
NoCfg == [file |-> "n/a", url |-> FALSE, key |-> FALSE, request_delay |-> 0]
NoFn == [name |-> "none"]

\* the variables of abercrombie_fitch.py while another program runs
AfIdle ==
    /\ dry_run = FALSE
    /\ embedder = FALSE
    /\ max_products = 0
    /\ max_concurrent_pages = 1
    /\ brand_gender = "MAN"
    /\ processed_urls = {}
    /\ products_found = 0
    /\ products_saved = 0
    /\ total_processed = 0
    /\ product_urls = <<>>
    /\ tasks = <<>>
    /\ products_to_save = <<>>
    /\ handed = <<>>
    /\ calls = {}
    /\ stored_before = {}
    /\ cfg = NoCfg
    /\ exit_code = "none"
    /\ fn = NoFn

\* one read of a listing page: the offset asked for and len(products) of what
\* came back (0 when nothing came back)
Entry(offset, count) == [offset |-> offset, count |-> count]

\* the log of the reads, which keeps the last LogWindow of them
Logged(log, entry) ==
    IF Len(log) < LogWindow THEN Append(log, entry)
    ELSE Append(Tail(log), entry)

NoDedup == [site |-> "none", inp |-> <<>>, out |-> <<>>]

InitMain ==
    /\ prog = "main"
    /\ pc = "run_loop"
    /\ max_pages \in 0..MaxPagesArg
    /\ categories \in SeqsUpTo({"direct", "main"}, MaxCats)
    /\ cat_kind = "none"
    /\ subs_left = 0
    /\ run_all = <<>>
    /\ cat_all = <<>>
    /\ sub_all = <<>>
    /\ start = 0
    /\ page_num = 0
    /\ fetched = <<>>
    /\ listing_log = <<>>
    /\ served = 0
    /\ browsers = 0
    /\ unique_products = <<>>
    /\ products_with_embeddings = <<>>
    /\ emb_idx = 0
    /\ save_idx = 0
    /\ store = {}
    /\ saved_count = 0
    /\ dd = NoDedup
    /\ all_product_urls = <<>>
    /\ products = <<>>
    /\ url_idx = 0
    /\ outcomes = {}
    /\ AfIdle

\* where an exception raised inside scrape_subcategory lands: scrape_category
\* catches it around each hardcoded subcategory and continues; a direct
\* subcategory run lets it leave run_full_scrape
RaisedPc == IF cat_kind = "main" THEN "cat_loop" ELSE "crashed"

\* run_full_scrape: for category_url in category_urls
RunNextCategory ==
    /\ prog = "main" /\ pc = "run_loop" /\ categories # <<>>
    /\ categories' = Tail(categories)
    /\ cat_kind' = Head(categories)
    /\ cat_all' = <<>>
    /\ subs_left' = IF Head(categories) = "main" THEN 2 ELSE 0
    /\ pc' = IF Head(categories) = "main" THEN "cat_loop" ELSE "sub_init"
    /\ UNCHANGED <<pvars, avars, dvars>>
    /\ UNCHANGED <<prog, max_pages, run_all, sub_all, start, page_num, fetched, listing_log,
                   served, browsers, unique_products, products_with_embeddings,
                   emb_idx, save_idx, store, saved_count, dd>>

\* scrape_category: for i, subcat in enumerate(subcategories, 1)
CatNextSub ==
    /\ prog = "main" /\ pc = "cat_loop" /\ subs_left > 0
    /\ subs_left' = subs_left - 1
    /\ pc' = "sub_init"
    /\ UNCHANGED <<pvars, avars, dvars>>
    /\ UNCHANGED <<prog, max_pages, categories, cat_kind, run_all, cat_all, sub_all,
                   start, page_num, fetched, listing_log, served, browsers, unique_products,
                   products_with_embeddings, emb_idx, save_idx, store, saved_count,
           dd>>

\* scrape_category: "Remove duplicates across all subcategories", return
CatFinish ==
    /\ prog = "main" /\ pc = "cat_loop" /\ subs_left = 0
    /\ run_all' = run_all \o UniqueCategory(cat_all)
    /\ pc' = "run_loop"
    /\ UNCHANGED <<pvars, avars, dvars>>
    /\ UNCHANGED <<prog, max_pages, categories, cat_kind, subs_left, cat_all, sub_all,
                   start, page_num, fetched, listing_log, served, browsers, unique_products,
                   products_with_embeddings, emb_idx, save_idx, store, saved_count,
                   dd>>

\* scrape_subcategory: init_browser_page, which may raise before the try:
\* in the launch, or after it in new_context or new_page, the browser open
SubInit ==
    /\ prog = "main" /\ pc = "sub_init"
    /\ sub_all' = <<>>
    /\ fetched' = <<>>
    /\ listing_log' = <<>>
    /\ start' = 0
    /\ page_num' = 0
    /\ \/ browsers' = browsers + 1 /\ pc' = "sub_goto"
       \/ browsers' = browsers /\ pc' = RaisedPc
       \/ browsers' = browsers + 1 /\ pc' = RaisedPc
    /\ UNCHANGED <<pvars, avars, dvars>>
    /\ UNCHANGED <<prog, max_pages, categories, cat_kind, subs_left, run_all, cat_all,
                   served, unique_products, products_with_embeddings, emb_idx,
                   save_idx, store, saved_count, dd>>

\* scrape_subcategory: page.goto(category_url); on a raise the finally closes
\* the browser
SubGoto ==
    /\ prog = "main" /\ pc = "sub_goto"
    /\ \/ browsers' = browsers /\ pc' = "sub_first"
       \/ browsers' = browsers - 1 /\ pc' = RaisedPc
    /\ UNCHANGED <<pvars, avars, dvars>>
    /\ UNCHANGED <<prog, max_pages, categories, cat_kind, subs_left, run_all, cat_all,
                   sub_all, start, page_num, fetched, listing_log, served, unique_products,
                   products_with_embeddings, emb_idx, save_idx, store, saved_count,
           dd>>

\* scrape_subcategory: "if max_pages is None or max_pages > 1"
EntersLoop == max_pages = 0 \/ max_pages > 1

\* scrape_subcategory: first page through the browser's fetch API; a raise, a
\* null or a response without 'data' adds nothing
SubFirstFetch ==
    /\ prog = "main" /\ pc = "sub_first"
    /\ fetched' = Append(fetched, 0)
    /\ \/ /\ UNCHANGED <<sub_all, served>>
          /\ listing_log' = Logged(listing_log, Entry(0, 0))
          /\ pc' = "sub_fallback"
       \/ \E resp \in Responses(MaxItems - served) :
            LET extracted == extract_products_from_response(resp, served)
            IN  /\ sub_all' = sub_all \o extracted
                /\ served' = served + Len(resp.items)
                /\ listing_log' = Logged(listing_log, Entry(0, ProductCount(resp, extracted)))
                /\ pc' = IF ProductCount(resp, extracted) = 0 THEN "sub_fallback"
                         ELSE IF EntersLoop THEN "sub_loop" ELSE "sub_dedup"
    /\ start' = Rows
    /\ page_num' = 1
    /\ UNCHANGED <<pvars, avars, dvars>>
    /\ UNCHANGED <<prog, max_pages, categories, cat_kind, subs_left, run_all, cat_all,
                   browsers, unique_products, products_with_embeddings, emb_idx,
                   save_idx, store, saved_count, dd>>

\* scrape_subcategory: "if not all_products" fetch_category_data(page, id, 0, 90)
SubFallback ==
    /\ prog = "main" /\ pc = "sub_fallback"
    /\ fetched' = Append(fetched, 0)
    /\ \/ /\ UNCHANGED <<sub_all, served>>
          /\ listing_log' = Logged(listing_log, Entry(0, 0))
       \/ \E resp \in Responses(MaxItems - served) :
            LET extracted == extract_products_from_response(resp, served)
            IN  /\ sub_all' = sub_all \o extracted
                /\ served' = served + Len(resp.items)
                /\ listing_log' = Logged(listing_log, Entry(0, ProductCount(resp, extracted)))
    /\ pc' = IF EntersLoop THEN "sub_loop" ELSE "sub_dedup"
    /\ UNCHANGED <<pvars, avars, dvars>>
    /\ UNCHANGED <<prog, max_pages, categories, cat_kind, subs_left, run_all, cat_all,
                   start, page_num, browsers, unique_products,
                   products_with_embeddings, emb_idx, save_idx, store, saved_count,
           dd>>

\* "if max_pages and page_num >= max_pages - 1: break"
ApiBudgetReached == max_pages # 0 /\ page_num >= max_pages - 1

\* a loop without the ceiling
NoCeiling(next_start) == FALSE

\* "if start > 1000: break"
ApiSafetyReached(next_start) == next_start > SafetyLimit

\* scrape_subcategory: one iteration of "while True"
SubLoop ==
    /\ prog = "main" /\ pc = "sub_loop"
    /\ \/ /\ ApiBudgetReached
          /\ pc' = "sub_dedup"
          /\ UNCHANGED <<sub_all, served, start, page_num, fetched, listing_log>>
       \/ /\ ~ApiBudgetReached
          /\ fetched' = Append(fetched, start)
          /\ \/ \* "No API response, stopping"
                /\ pc' = "sub_dedup"
                /\ listing_log' = Logged(listing_log, Entry(start, 0))
                /\ UNCHANGED <<sub_all, served, start, page_num>>
             \/ \E resp \in Responses(MaxItems - served) :
                  LET extracted == extract_products_from_response(resp, served)
                      n == ProductCount(resp, extracted)
                  IN  /\ served' = served + Len(resp.items)
                      /\ listing_log' = Logged(listing_log, Entry(start, n))
                      /\ IF n = 0
                         THEN /\ pc' = "sub_dedup"
                              /\ UNCHANGED <<sub_all, start, page_num>>
                         ELSE /\ sub_all' = sub_all \o extracted
                              /\ IF n < Rows
                                 THEN /\ pc' = "sub_dedup"
                                      /\ UNCHANGED <<start, page_num>>
                                 ELSE /\ start' = start + Rows
                                      /\ page_num' = page_num + 1
                                      /\ pc' = IF ApiSafetyReached(start + Rows)
                                               THEN "sub_dedup" ELSE "sub_loop"
    /\ UNCHANGED <<pvars, avars, dvars>>
    /\ UNCHANGED <<prog, max_pages, categories, cat_kind, subs_left, run_all, cat_all,
                   browsers, unique_products, products_with_embeddings, emb_idx,
                   save_idx, store, saved_count, dd>>

\* scrape_subcategory: "Remove duplicates based on product URL", return through
\* the finally that closes the browser; the return ends the life of the
\* responses read
SubFinish ==
    /\ prog = "main" /\ pc = "sub_dedup"
    /\ browsers' = browsers - 1
    /\ listing_log' = <<>>
    /\ LET unique == UniqueSubcategory(sub_all)
       IN  IF cat_kind = "main"
           THEN /\ cat_all' = cat_all \o unique
                /\ pc' = "cat_loop"
                /\ UNCHANGED run_all
           ELSE /\ run_all' = run_all \o unique
                /\ pc' = "run_loop"
                /\ UNCHANGED cat_all
    /\ UNCHANGED <<pvars, avars, dvars>>
    /\ UNCHANGED <<prog, max_pages, categories, cat_kind, subs_left, sub_all, start,
                   page_num, fetched, served, unique_products,
                   products_with_embeddings, emb_idx, save_idx, store, saved_count,
                   dd>>

\* run_full_scrape: "Remove duplicates based on product_url"
RunDedup ==
    /\ prog = "main" /\ pc = "run_loop" /\ categories = <<>>
    /\ unique_products' = UniqueRun(run_all)
    /\ pc' = "embed_init"
    /\ UNCHANGED <<pvars, avars, dvars>>
    /\ UNCHANGED <<prog, max_pages, categories, cat_kind, subs_left, run_all, cat_all,
                   sub_all, start, page_num, fetched, listing_log, served, browsers,
                   products_with_embeddings, emb_idx, save_idx, store, saved_count,
                   dd>>

\* generate_embeddings runs its loop with the browser for image downloads
\* launched ("embed") or, the launch having failed, without one
EmbedPcs == {"embed", "embed_no_browser"}

\* generate_embeddings: the browser for image downloads (a failure is caught
\* and leaves browser_page None), then initialize_embedding_generator, whose
\* raise leaves through the finally
EmbedInit ==
    /\ prog = "main" /\ pc = "embed_init"
    /\ products_with_embeddings' = <<>>
    /\ emb_idx' = 1
    /\ \/ browsers' = browsers + 1 /\ pc' = "embed"
       \/ browsers' = browsers /\ pc' = "embed_no_browser"
       \/ browsers' = browsers /\ pc' = "crashed"
    /\ UNCHANGED <<pvars, avars, dvars>>
    /\ UNCHANGED <<prog, max_pages, categories, cat_kind, subs_left, run_all, cat_all,
                   sub_all, start, page_num, fetched, listing_log, served, unique_products,
                   save_idx, store, saved_count, dd>>

\* generate_embeddings: the body of "for product in products"; embedding is
\* the result of generate_embedding, "unset" for None
EmbedProduct(product, embedding) ==
    IF product.image_url # <<>> /\ embedding # "unset"
    THEN [product EXCEPT !.embedding = embedding]
    ELSE product

\* what generate_embeddings logs for the product
EmbedResult(product, embedding) ==
    IF product.image_url = <<>> THEN "no image"
    ELSE IF embedding = "unset" THEN "embedding failed"
    ELSE "embedded"

\* a loop that passes on only the products it could embed
AppendedIfEmbedded(list, product, embedding) ==
    IF product.image_url # <<>> /\ embedding # "unset"
    THEN Append(list, EmbedProduct(product, embedding))
    ELSE list

\* generate_embeddings: products_with_embeddings.append(product), which every
\* branch of the body does
Appended(list, product, embedding) ==
    Append(list, EmbedProduct(product, embedding))

EmbedOne ==
    /\ prog = "main" /\ pc \in EmbedPcs /\ emb_idx <= Len(unique_products)
    /\ \E embedding \in {"vector", "unset"} :
         LET product == EmbedProduct(unique_products[emb_idx], embedding)
         IN  /\ unique_products' = [unique_products EXCEPT ![emb_idx] = product]
             /\ products_with_embeddings' =
                    Appended(products_with_embeddings, unique_products[emb_idx],
                             embedding)
             /\ outcomes' = outcomes \cup
                    {[url |-> product.product_url,
                      result |-> EmbedResult(unique_products[emb_idx], embedding)]}
    /\ emb_idx' = emb_idx + 1
    /\ UNCHANGED <<all_product_urls, products, url_idx, avars, dvars>>
    /\ UNCHANGED <<prog, pc, max_pages, categories, cat_kind, subs_left, run_all,
                   cat_all, sub_all, start, page_num, fetched, listing_log, served, browsers,
                   save_idx, store, saved_count, dd>>

\* generate_embeddings: return through the finally that closes the browser
EmbedFinish ==
    /\ prog = "main" /\ pc \in EmbedPcs /\ emb_idx > Len(unique_products)
    /\ browsers' = IF pc = "embed" THEN browsers - 1 ELSE browsers
    /\ save_idx' = 1
    /\ saved_count' = 0
    /\ pc' = "save"
    /\ UNCHANGED <<pvars, avars, dvars>>
    /\ UNCHANGED <<prog, max_pages, categories, cat_kind, subs_left, run_all, cat_all,
                   sub_all, start, page_num, fetched, listing_log, served, unique_products,
                   products_with_embeddings, emb_idx, store, dd>>

\* database.py: the row insert_product builds from a product
Row(product) ==
    [ id          |-> product.id,
      source      |-> "scraper",
      product_url |-> product.product_url,
      title       |-> product.title,
      image_url   |-> product.image_url,
      gender      |-> product.gender,
      embedding   |-> product.embedding ]

\* the table's upsert on the conflict target (source, product_url)
Upsert(table, row) ==
    {r \in table : ~(r.source = row.source /\ r.product_url = row.product_url)}
        \cup {row}

\* Database.insert_products_batch: one insert_product, which returns False
\* when the request raises
SaveOne ==
    /\ prog = "main" /\ pc = "save" /\ save_idx <= Len(products_with_embeddings)
    /\ \/ /\ store' = Upsert(store, Row(products_with_embeddings[save_idx]))
          /\ saved_count' = saved_count + 1
       \/ UNCHANGED <<store, saved_count>>
    /\ save_idx' = save_idx + 1
    /\ UNCHANGED <<pvars, avars, dvars>>
    /\ UNCHANGED <<prog, pc, max_pages, categories, cat_kind, subs_left, run_all,
                   cat_all, sub_all, start, page_num, fetched, listing_log, served, browsers,
                   unique_products, products_with_embeddings, emb_idx, dd>>

SaveFinish ==
    /\ prog = "main" /\ pc = "save" /\ save_idx > Len(products_with_embeddings)
    /\ pc' = "done"
    /\ UNCHANGED <<prog, mvars, pvars, avars, dvars>>

NextMain ==
    \/ RunNextCategory \/ CatNextSub \/ CatFinish
    \/ SubInit \/ SubGoto \/ SubFirstFetch \/ SubFallback \/ SubLoop \/ SubFinish
    \/ RunDedup \/ EmbedInit \/ EmbedOne \/ EmbedFinish \/ SaveOne \/ SaveFinish

SpecMain == InitMain /\ [][NextMain]_vars

\* ------------------------------------------------------- gender inference
\* Texts are cut so that "men", "wo" and "s" are lexemes: "womens-tops" is
\* <<"wo", "men", "s", "-tops">>.
Mens == <<"men", "s">>
Womens == <<"wo", "men", "s">>

\* scrape_product_details: "Extract gender from URL or category"; breadcrumbs
\* are the texts of the breadcrumb elements, lowered, in document order
RECURSIVE BreadcrumbGender(_, _)
BreadcrumbGender(breadcrumbs, i) ==
    IF i > Len(breadcrumbs) THEN "OTHER"
    ELSE IF Contains(breadcrumbs[i], <<"men">>) \/ Contains(breadcrumbs[i], Mens)
    THEN "MAN"
    ELSE IF Contains(breadcrumbs[i], <<"wo", "men">>)
              \/ Contains(breadcrumbs[i], Womens)
    THEN "WOMAN"
    ELSE BreadcrumbGender(breadcrumbs, i + 1)

ps_gender(product_url, breadcrumbs) ==
    IF Contains(product_url, <<"/">> \o Mens) THEN "MAN"
    ELSE IF Contains(product_url, <<"/">> \o Womens) THEN "WOMAN"
    ELSE BreadcrumbGender(breadcrumbs, 1)

\* APIScraper.extract_gender, which no code calls; field is gender.upper()
extract_gender(field, url) ==
    IF field \in {"M", "MALE", "MAN"} THEN "MAN"
    ELSE IF field \in {"F", "FEMALE", "WOMAN"} THEN "WOMAN"
    ELSE IF Contains(url, <<"/">> \o Mens) THEN "MAN"
    ELSE IF Contains(url, <<"/">> \o Womens) THEN "WOMAN"
    ELSE "OTHER"

\* texts of breadcrumb elements
BreadcrumbTexts ==
    {<<"home">>, <<"men">>, Mens, <<"wo", "men">>, Womens \o <<" ", "tops">>}

\* ------------------------------------------------------ product_scraper.py
\* hrefs of the anchors of a listing page that the model follows one by one
PsHrefs ==
    { ShopEu \o <<"/", "p", "/", "A">>,
      Origin \o ShopEu \o <<"/", "p", "/", "A", "?", "q=1">>,
      ShopEu \o <<"/", "p", "/", "B", "#", "frag">>,
      ShopEu \o <<"/", "mens">>,
      ShopEu \o <<"/", "category", "/", "p", "/", "X">> }

\* what a listing page shows: its anchors, and whether it lists further
\* products ("full": ITEMS_PER_PAGE in all, "over": more than that)
Listings(room) ==
    {[links |-> l, more |-> m] :
        l \in SeqsUpTo(PsHrefs, room), m \in {"none", "full", "over"}}

\* urljoin(self.base_url, href)
urljoin_base(href) ==
    IF Head(href) \in {"http:", "https:"} THEN href
    ELSE IF Head(href) = "/" THEN Origin \o href
    ELSE Origin \o <<"/", "shop", "/">> \o href

\* f"{parsed.scheme}://{parsed.netloc}{parsed.path}"
clean_url(url) == SplitHead(SplitHead(url, "?"), "#")

\* 'category' in href
HasCategory(href) == \E i \in 1..Len(href) : href[i] = "category"

RECURSIVE CleanLinks(_, _, _)
CleanLinks(links, seen, i) ==
    IF i > Len(links) THEN <<>>
    ELSE LET clean == clean_url(urljoin_base(links[i]))
         IN  IF /\ HasProductMarker(links[i])
                /\ ~HasCategory(links[i])
                /\ clean \notin seen
             THEN <<clean>> \o CleanLinks(links, seen \cup {clean}, i + 1)
             ELSE CleanLinks(links, seen, i + 1)

\* urlsplit raises ValueError ('Invalid IPv6 URL') on a host that opens a
\* bracket and does not close it
UrlRaises(url) == \E i \in 1..Len(url) : url[i] = "["

\* "Look for data attributes": the product_links after the data-product-url
\* values from i on; raised once urljoin or urlparse has raised
RECURSIVE DataLinks(_, _, _)
DataLinks(data, product_links, i) ==
    IF i > Len(data) THEN [links |-> product_links, raised |-> FALSE]
    ELSE IF ~HasProductMarker(data[i]) THEN DataLinks(data, product_links, i + 1)
    ELSE IF UrlRaises(data[i]) THEN [links |-> product_links, raised |-> TRUE]
    ELSE LET clean == clean_url(urljoin_base(data[i]))
         IN  DataLinks(data,
                       IF clean \in Range(product_links) THEN product_links
                       ELSE Append(product_links, clean),
                       i + 1)

\* "Remove duplicates and clean URLs": the URLs kept from i on
RECURSIVE KeptLinks(_, _, _)
KeptLinks(product_links, seen, i) ==
    IF i > Len(product_links) THEN <<>>
    ELSE LET clean == clean_url(product_links[i])
         IN  IF clean \notin seen /\ HasProductMarker(clean) /\ ~HasCategory(clean)
             THEN <<clean>> \o KeptLinks(product_links, seen \cup {clean}, i + 1)
             ELSE KeptLinks(product_links, seen, i + 1)

\* get_product_urls_from_page on a page with these anchors, the anchors
\* `late` that the page shows only after the evaluation in it, and these
\* data-product-url values: the evaluation, which js_raises makes fail, the
\* parse of page.content() when it gave nothing, the final loop; the outer
\* except returns product_urls as it is, empty before the final loop
product_urls_from(links, late, data, js_raises) ==
    LET js == IF js_raises THEN <<>> ELSE CleanLinks(links, {}, 1)
        parsed == DataLinks(data, CleanLinks(links \o late, {}, 1), 1)
    IN  IF js # <<>> THEN KeptLinks(js, {}, 1)
        ELSE IF parsed.raised THEN <<>>
        ELSE KeptLinks(parsed.links, {}, 1)

get_product_urls_from_page(listing) ==
    product_urls_from(listing.links, <<>>, <<>>, FALSE)

\* len(product_urls) for a listing
UrlCount(listing, found) ==
    CASE listing.more = "none" -> Len(found)
      [] listing.more = "full" -> ITEMS_PER_PAGE
      [] listing.more = "over" -> ITEMS_PER_PAGE + 1

\* list(dict.fromkeys(all_product_urls))
RECURSIVE FromKeys(_, _, _)
FromKeys(urls, seen, i) ==
    IF i > Len(urls) THEN <<>>
    ELSE IF urls[i] \in seen THEN FromKeys(urls, seen, i + 1)
    ELSE <<urls[i]>> \o FromKeys(urls, seen \cup {urls[i]}, i + 1)

InitPS ==
    /\ prog = "ps"
    /\ pc = "ps_launch"
    /\ max_pages \in 0..MaxPagesArg
    /\ categories = <<>>
    /\ cat_kind = "none"
    /\ subs_left = 0
    /\ run_all = <<>>
    /\ cat_all = <<>>
    /\ sub_all = <<>>
    /\ start = 0
    /\ page_num = 0
    /\ fetched = <<>>
    /\ listing_log = <<>>
    /\ served = 0
    /\ browsers = 0
    /\ unique_products = <<>>
    /\ products_with_embeddings = <<>>
    /\ emb_idx = 0
    /\ save_idx = 0
    /\ store = {}
    /\ saved_count = 0
    /\ dd = NoDedup
    /\ all_product_urls = <<>>
    /\ products = <<>>
    /\ url_idx = 0
    /\ outcomes = {}
    /\ AfIdle

PsUnused == <<categories, cat_kind, subs_left, run_all, cat_all, sub_all,
              unique_products, products_with_embeddings, emb_idx, save_idx, store,
              saved_count, dd, avars, dvars>>

\* get_all_product_urls / scrape_all_products: init_browser, then
\* create_stealth_page, both before the try
PsLaunch ==
    /\ prog = "ps" /\ pc \in {"ps_launch", "ps_launch2"}
    /\ \/ /\ browsers' = browsers + 1
          /\ pc' = IF pc = "ps_launch" THEN "ps_goto" ELSE "ps_scrape"
       \/ browsers' = browsers /\ pc' = "crashed"
       \/ browsers' = browsers + 1 /\ pc' = "crashed"
    /\ UNCHANGED <<prog, max_pages, start, page_num, fetched, listing_log, served, PsUnused, pvars>>

\* get_all_product_urls: page.goto(category_url); a raise leaves through the
\* finally
PsGoto ==
    /\ prog = "ps" /\ pc = "ps_goto"
    /\ \/ browsers' = browsers /\ pc' = "ps_loop"
       \/ browsers' = browsers - 1 /\ pc' = "crashed"
    /\ UNCHANGED <<prog, max_pages, start, page_num, fetched, listing_log, served, PsUnused, pvars>>

\* a budget test that lets one page too many through
BudgetOffByOne == max_pages # 0 /\ page_num > max_pages

\* "if max_pages and page_num >= max_pages: break"
PsBudgetReached == max_pages # 0 /\ page_num >= max_pages

\* "if start > 1000: break"
PsSafetyReached(next_start) == next_start > SafetyLimit

\* get_all_product_urls: one iteration of "while True".  check is what the
\* look for a next page finds: "raise" (caught), "button", "link" (no button,
\* the next start= in the content) or "last"
PsLoop ==
    /\ prog = "ps" /\ pc = "ps_loop"
    /\ \/ /\ PsBudgetReached
          /\ pc' = "ps_dedup"
          /\ UNCHANGED <<all_product_urls, served, start, page_num, fetched, listing_log>>
       \/ /\ ~PsBudgetReached
          /\ \E listing \in Listings(MaxItems - served),
                check \in {"raise", "button", "link", "last"} :
               LET found == get_product_urls_from_page(listing)
                   n == UrlCount(listing, found)
               IN  /\ served' = served + Len(listing.links)
                   /\ IF n = 0
                      THEN /\ fetched' = Append(fetched, start)
                           /\ listing_log' = Logged(listing_log, Entry(start, 0))
                           /\ pc' = "ps_dedup"
                           /\ UNCHANGED <<all_product_urls, start, page_num>>
                      ELSE /\ all_product_urls' = all_product_urls \o found
                           /\ fetched' = fetched \o <<start, start>>
                           /\ listing_log' = Logged(listing_log, Entry(start, n))
                           /\ IF \/ check = "last"
                                 \/ check \in {"button", "link"} /\ n < ITEMS_PER_PAGE
                              THEN /\ pc' = "ps_dedup"
                                   /\ UNCHANGED <<start, page_num>>
                              ELSE /\ start' = start + ITEMS_PER_PAGE
                                   /\ page_num' = page_num + 1
                                   /\ pc' = IF PsSafetyReached(start + ITEMS_PER_PAGE)
                                            THEN "ps_dedup" ELSE "ps_loop"
    /\ UNCHANGED <<prog, max_pages, browsers, PsUnused, products, url_idx, outcomes>>

\* get_all_product_urls: "Remove duplicates", the finally, return; then
\* scrape_all_products: "if not product_urls: return []"
PsDedup ==
    /\ prog = "ps" /\ pc = "ps_dedup"
    /\ all_product_urls' = FromKeys(all_product_urls, {}, 1)
    /\ browsers' = browsers - 1
    /\ listing_log' = <<>>
    /\ url_idx' = 1
    /\ pc' = IF all_product_urls = <<>> THEN "done" ELSE "ps_launch2"
    /\ UNCHANGED <<prog, max_pages, start, page_num, fetched, served, PsUnused,
                   products, outcomes>>

\* scrape_product_details: the dictionary returned for a product page
ProductData(product_url, breadcrumbs, obj) ==
    [ title       |-> "title",
      product_url |-> product_url,
      gender      |-> ps_gender(product_url, breadcrumbs),
      obj         |-> obj ]

\* scrape_all_products: the body of "for i, url in enumerate(product_urls, 1)";
\* scrape_product_details returns None when anything in it raises
PsScrapeOne ==
    /\ prog = "ps" /\ pc = "ps_scrape" /\ url_idx <= Len(all_product_urls)
    /\ \/ /\ \E breadcrumbs \in SeqsUpTo(BreadcrumbTexts, MaxCrumbs) :
               products' = Append(products,
                                  ProductData(all_product_urls[url_idx],
                                              breadcrumbs, url_idx))
          /\ outcomes' = outcomes \cup
                 {[url |-> all_product_urls[url_idx], result |-> "ok"]}
       \/ /\ UNCHANGED products
          /\ outcomes' = outcomes \cup
                 {[url |-> all_product_urls[url_idx], result |-> "failed"]}
    /\ url_idx' = url_idx + 1
    /\ UNCHANGED <<prog, pc, max_pages, start, page_num, fetched, listing_log, served, browsers,
                   PsUnused, all_product_urls>>

\* scrape_all_products: the finally, return products
PsScrapeFinish ==
    /\ prog = "ps" /\ pc = "ps_scrape" /\ url_idx > Len(all_product_urls)
    /\ browsers' = browsers - 1
    /\ pc' = "done"
    /\ UNCHANGED <<prog, max_pages, start, page_num, fetched, listing_log, served, PsUnused, pvars>>

NextPS ==
    \/ PsLaunch \/ PsGoto \/ PsLoop \/ PsDedup \/ PsScrapeOne \/ PsScrapeFinish

SpecPS == InitPS /\ [][NextPS]_vars

\* ------------------------------------------- scrapers/abercrombie_fitch.py
UrlA == EU_BASE_URL \o <<"/", "p", "/", "A">>
UrlB == EU_BASE_URL \o <<"/", "p", "/", "B">>

\* A product URL the site has not served before in this run.  The site can
\* always list one more (a new product id), so no set of seen URLs and no
\* table holds it: the history `handed` and the rows of the table that the
\* model follows leave it out.
Fresh == <<"fresh">>

\* what a page holds that the model follows one by one: anchors ("dom"),
\* JSON-LD values ("jsonld"), URLs in script text ("script"), anchors of
\* product cards ("card") and URLs of intercepted JSON responses ("api")
AfPool ==
    { [via |-> "dom",    href |-> ShopEu \o <<"/", "p", "/", "A", "?", "q=1">>],
      [via |-> "dom",    href |-> UrlB \o <<"#", "frag">>],
      [via |-> "dom",    href |-> <<"p", "/", "D">>],
      [via |-> "jsonld", href |-> UrlA],
      [via |-> "script", href |-> UrlB \o <<"?", "q=1", "#", "frag">>],
      [via |-> "card",   href |-> ShopEu \o <<"/", "p", "/", "A">>],
      [via |-> "api",    href |-> UrlA \o <<"#", "frag">>],
      [via |-> "api",    href |-> UrlB \o <<"?", "q=1">>] }

\* a page as served: the items above in document order, and whether it also
\* lists a product never served before
Views(room) ==
    {[items |-> i, fresh |-> f] : i \in SeqsUpTo(AfPool, room), f \in BOOLEAN}

\* n more, on a counter that saturates
Plus(counter, n) == IF counter + n > MaxCount THEN MaxCount ELSE counter + n

\* url.split('?')[0].split('#')[0]
CleanQueryFragment(url) == SplitHead(SplitHead(url, "?"), "#")

\* api_url.split('?')[0]
CleanQuery(url) == SplitHead(url, "?")

\* _extract_product_urls: the URL a strategy makes of an item, <<>> when it
\* passes the item over
Candidate(item) ==
    IF ~HasProductMarker(item.href) THEN <<>>
    ELSE IF item.via \in {"dom", "card"}
    THEN IF Head(item.href) = "/" THEN CleanQueryFragment(Origin \o item.href)
         ELSE IF Head(item.href) \in {"http:", "https:"}
         THEN CleanQueryFragment(item.href)
         ELSE <<>>
    ELSE IF item.via = "jsonld" THEN CleanQueryFragment(item.href)
    ELSE IF item.via = "script"
    THEN IF Head(item.href) \in {"http:", "https:"}
         THEN CleanQueryFragment(item.href) ELSE <<>>
    ELSE <<>>

\* _scrape_category_page: the URL made of an intercepted or script URL
LooseCandidate(item) ==
    IF ~HasProductMarker(item.href) THEN <<>>
    ELSE IF item.via = "api" THEN CleanQuery(item.href)
    ELSE IF item.via = "script" /\ Head(item.href) \in {"http:", "https:"}
    THEN CleanQuery(item.href)
    ELSE <<>>

\* one strategy over the items of a page; acc is [urls, seen, processed]
RECURSIVE ExtractVia(_, _, _, _)
ExtractVia(via, items, i, acc) ==
    IF i > Len(items) THEN acc
    ELSE LET clean_url_ == Candidate(items[i])
         IN  IF /\ items[i].via = via
                /\ clean_url_ # <<>>
                /\ clean_url_ \notin acc.processed
                /\ clean_url_ \notin acc.seen
             THEN ExtractVia(via, items, i + 1,
                      [urls      |-> Append(acc.urls, clean_url_),
                       seen      |-> acc.seen \cup {clean_url_},
                       processed |-> acc.processed \cup {clean_url_}])
             ELSE ExtractVia(via, items, i + 1, acc)

\* one method of _extract_product_urls, inside its try: when its query of
\* the page raises, the except logs and the method adds nothing
Method(via, items, acc, failing) ==
    IF via = failing THEN acc ELSE ExtractVia(via, items, 1, acc)

\* _extract_product_urls: Method 1 to Method 4 in turn over the items of a
\* page, the method `failing` raising ("none": no method raises)
urls_from_methods(items, processed, failing) ==
    LET m1 == Method("dom", items,
                     [urls |-> <<>>, seen |-> {}, processed |-> processed], failing)
        m2 == Method("jsonld", items, m1, failing)
        m3 == Method("script", items, m2, failing)
    IN  Method("card", items, m3, failing)

\* _extract_product_urls on a page of the pipeline
extract_product_urls(view, processed) ==
    LET m4 == urls_from_methods(view.items, processed, "none")
    IN  [urls      |-> m4.urls \o (IF view.fresh THEN <<Fresh>> ELSE <<>>),
         processed |-> m4.processed]

\* _scrape_category_page: "Add URLs found from API responses" (via "api") and
\* the script search of the first page (via "script"); acc is [urls, processed]
RECURSIVE AddLoose(_, _, _, _)
AddLoose(via, items, i, acc) ==
    IF i > Len(items) THEN acc
    ELSE LET clean_url_ == LooseCandidate(items[i])
         IN  IF /\ items[i].via = via
                /\ clean_url_ # <<>>
                /\ clean_url_ \notin acc.processed
             THEN AddLoose(via, items, i + 1,
                      [urls      |-> Append(acc.urls, clean_url_),
                       processed |-> acc.processed \cup {clean_url_}])
             ELSE AddLoose(via, items, i + 1, acc)

\* _generate_product_id: re.search(r'/p/([^/?]+)', url), with the source prefix
RECURSIVE CodeFrom(_, _)
CodeFrom(url, i) ==
    IF i > Len(url) \/ url[i] \in {"/", "?"} THEN <<>>
    ELSE <<url[i]>> \o CodeFrom(url, i + 1)

RECURSIVE MarkerIndex(_, _)
MarkerIndex(url, i) ==
    IF i + 3 > Len(url) THEN 0
    ELSE IF url[i] = "/" /\ url[i + 1] = "p" /\ url[i + 2] = "/"
              /\ url[i + 3] \notin {"/", "?"}
    THEN i
    ELSE MarkerIndex(url, i + 1)

generate_product_id(url) ==
    IF MarkerIndex(url, 1) # 0
    THEN <<"abercrombie_">> \o CodeFrom(url, MarkerIndex(url, 1) + 3)
    ELSE <<"abercrombie_">> \o Md5(url)

\* whether the product page shows an image
HasImage(product_url) == product_url # UrlB

\* what the configuration file may give for brand.gender, a string that
\* nothing validates
BrandGenders == {"MAN", "men"}

\* _extract_product_data: the product_data dictionary
ProductDataAf(product_url, has_image) ==
    [ id          |-> generate_product_id(product_url),
      source      |-> "abercrombie",
      product_url |-> product_url,
      image_url   |-> IF has_image THEN <<"img">> \o product_url ELSE <<>>,
      title       |-> "title",
      gender      |-> brand_gender,
      embedding   |-> "unset" ]

\* rows the table may hold before the run
StoredBefore == {{}, {ProductDataAf(UrlA, HasImage(UrlA))}}

\* SupabaseClient.product_exists when the request goes through
Exists(table, product_url) == \E r \in table : r.product_url = product_url

\* the URLs that the history of handed URLs follows
Known(urls) == SelectSeq(urls, LAMBDA u : u # Fresh)

AfUnused == <<max_pages, categories, cat_kind, subs_left, run_all, cat_all, sub_all,
              start, fetched, listing_log, unique_products, products_with_embeddings, emb_idx,
              save_idx, saved_count, dd, all_product_urls, products, url_idx,
              dvars>>

AfConfig == <<dry_run, embedder, max_products, max_concurrent_pages, brand_gender,
              stored_before>>

InitAF ==
    /\ prog = "af"
    /\ pc = "af_setup"
    /\ dry_run \in BOOLEAN
    /\ embedder \in BOOLEAN
    /\ max_products \in 0..MaxProductsArg
    /\ max_concurrent_pages \in 1..MaxConc
    /\ brand_gender \in BrandGenders
    /\ store \in StoredBefore
    /\ stored_before = store
    /\ max_pages = 0
    /\ categories = <<>>
    /\ cat_kind = "none"
    /\ subs_left = 0
    /\ run_all = <<>>
    /\ cat_all = <<>>
    /\ sub_all = <<>>
    /\ start = 0
    /\ page_num = 0
    /\ fetched = <<>>
    /\ listing_log = <<>>
    /\ served = 0
    /\ browsers = 0
    /\ unique_products = <<>>
    /\ products_with_embeddings = <<>>
    /\ emb_idx = 0
    /\ save_idx = 0
    /\ saved_count = 0
    /\ dd = NoDedup
    /\ all_product_urls = <<>>
    /\ products = <<>>
    /\ url_idx = 0
    /\ outcomes = {}
    /\ processed_urls = {}
    /\ products_found = 0
    /\ products_saved = 0
    /\ total_processed = 0
    /\ product_urls = <<>>
    /\ tasks = <<>>
    /\ products_to_save = <<>>
    /\ handed = <<>>
    /\ calls = {}
    /\ cfg = NoCfg
    /\ exit_code = "none"
    /\ fn = NoFn

\* scrape: _setup_browser and _create_page; a raise is caught by scrape, which
\* returns success False
AfSetup ==
    /\ prog = "af" /\ pc = "af_setup"
    /\ \/ browsers' = browsers + 1 /\ pc' = "af_open"
       \/ browsers' = browsers /\ pc' = "crashed"
    /\ UNCHANGED <<prog, page_num, served, store, outcomes, processed_urls,
                   products_found, products_saved, total_processed, product_urls,
                   tasks, products_to_save, handed, calls, AfConfig, AfUnused>>

\* _scrape_category_page up to "while True": the navigation (a timeout is
\* caught), cookie consent and scrolling, which may raise
AfOpen ==
    /\ prog = "af" /\ pc = "af_open"
    /\ total_processed' = 0
    /\ page_num' = 1
    /\ pc' \in {"af_extract", "crashed"}
    /\ UNCHANGED <<prog, served, browsers, store, outcomes, processed_urls,
                   products_found, products_saved, product_urls, tasks,
                   products_to_save, handed, calls, AfConfig, AfUnused>>

\* _scrape_category_page: the head of an iteration: _extract_product_urls, then
\* "Add URLs found from API responses"
AfExtract ==
    /\ prog = "af" /\ pc = "af_extract"
    /\ \E view \in Views(MaxItems - served) :
         LET found == extract_product_urls(view, processed_urls)
             added == AddLoose("api", view.items, 1,
                               [urls |-> found.urls, processed |-> found.processed])
         IN  /\ product_urls' = added.urls
             /\ processed_urls' = added.processed
             /\ served' = served + Len(view.items)
             /\ pc' = IF added.urls # <<>> THEN "af_batch"
                      ELSE IF page_num = 1 THEN "af_fallback"
                      ELSE "done"
    /\ UNCHANGED <<prog, page_num, browsers, store, outcomes, products_found,
                   products_saved, total_processed, tasks, products_to_save, handed,
                   calls, AfConfig, AfUnused>>

\* _scrape_category_page: "if not product_urls and page_num == 1": the pages
\* behind the category links, of which the model follows one
AfFallback ==
    /\ prog = "af" /\ pc = "af_fallback"
    /\ \/ \* no category link
          /\ pc' = "af_retry"
          /\ UNCHANGED <<product_urls, processed_urls, served>>
       \/ \* page.goto(cat_url) raises
          /\ pc' = "crashed"
          /\ UNCHANGED <<product_urls, processed_urls, served>>
       \/ \E view \in Views(MaxItems - served) :
            LET found == extract_product_urls(view, processed_urls)
            IN  /\ product_urls' = product_urls \o found.urls
                /\ processed_urls' = found.processed
                /\ served' = served + Len(view.items)
                /\ pc' = IF found.urls # <<>> THEN "af_batch" ELSE "af_retry"
    /\ UNCHANGED <<prog, page_num, browsers, store, outcomes, products_found,
                   products_saved, total_processed, tasks, products_to_save, handed,
                   calls, AfConfig, AfUnused>>

\* _scrape_category_page: "if not product_urls: if page_num == 1": the search
\* of the scripts, then the reload and a second _extract_product_urls
AfRetry ==
    /\ prog = "af" /\ pc = "af_retry"
    /\ \E view \in Views(MaxItems - served) :
         LET scripted == AddLoose("script", view.items, 1,
                                  [urls |-> <<>>, processed |-> processed_urls])
         IN  IF scripted.urls # <<>>
             THEN /\ product_urls' = scripted.urls
                  /\ processed_urls' = scripted.processed
                  /\ served' = served + Len(view.items)
                  /\ pc' = "af_batch"
             ELSE \/ \* page.reload raises
                     /\ pc' = "crashed"
                     /\ served' = served + Len(view.items)
                     /\ UNCHANGED <<product_urls, processed_urls>>
                  \/ \E reloaded \in Views(MaxItems - served - Len(view.items)) :
                       LET found == extract_product_urls(reloaded, processed_urls)
                       IN  /\ product_urls' = found.urls
                           /\ processed_urls' = found.processed
                           /\ served' = served + Len(view.items) + Len(reloaded.items)
                           /\ pc' = IF found.urls # <<>> THEN "af_batch" ELSE "done"
    /\ UNCHANGED <<prog, page_num, browsers, store, outcomes, products_found,
                   products_saved, total_processed, tasks, products_to_save, handed,
                   calls, AfConfig, AfUnused>>

Min(a, b) == IF a < b THEN a ELSE b

\* _process_product_batch: the pages, which _create_page may fail to open, and
\* the tasks; task i works on pages[page_idx % len(pages)]
AfBatchStart ==
    /\ prog = "af" /\ pc = "af_batch"
    /\ handed' = handed \o Known(product_urls)
    /\ products_to_save' = <<>>
    /\ \/ /\ tasks' = [i \in 1..Len(product_urls) |->
                         [st   |-> "waiting",
                          page |-> (i - 1) % Min(Len(product_urls),
                                                 max_concurrent_pages)]]
          /\ pc' = "af_tasks"
       \/ /\ tasks' = <<>>
          /\ pc' = "crashed"
    /\ UNCHANGED <<prog, page_num, served, browsers, store, outcomes, processed_urls,
                   products_found, products_saved, total_processed, product_urls,
                   calls, AfConfig, AfUnused>>

Running == {i \in 1..Len(tasks) : tasks[i].st = "running"}
Waiting == {i \in 1..Len(tasks) : tasks[i].st = "waiting"}

\* a semaphore that lets every task in
SemaphoreAlwaysFree == TRUE

\* asyncio.Semaphore(self.config.scraping.max_concurrent_pages): a task may
\* enter
SemaphoreFree == Cardinality(Running) < max_concurrent_pages

\* process_single: "async with semaphore"; the waiters enter in the order the
\* tasks were created
AfTaskStart ==
    /\ prog = "af" /\ pc = "af_tasks"
    /\ Waiting # {}
    /\ SemaphoreFree
    /\ LET i == CHOOSE w \in Waiting : \A v \in Waiting : w <= v
       IN  tasks' = [tasks EXCEPT ![i].st = "running"]
    /\ UNCHANGED <<prog, pc, page_num, served, browsers, store, outcomes,
                   processed_urls, products_found, products_saved, total_processed,
                   product_urls, products_to_save, handed, calls, AfConfig, AfUnused>>

\* "if not self.dry_run and await self.db_client.product_exists(product_url)";
\* answer is what the request gives: "raise" is caught in product_exists,
\* which then returns False
AlreadyExists(answer, product_url) ==
    /\ ~dry_run
    /\ answer = "result"
    /\ Exists(store, product_url)

\* a raise that leaves the gather and ends the batch
RaiseEndsBatch(ts, i) == [j \in 1..Len(ts) |-> [ts[j] EXCEPT !.st = "done"]]

\* _extract_product_data: "except Exception as e: ... return None": the tasks
\* once the extraction of task i has raised
AfterRaise(ts, i) == [ts EXCEPT ![i].st = "done"]

\* process_single: _extract_product_data for one URL, to its return
AfTaskFinish ==
    /\ prog = "af" /\ pc = "af_tasks"
    /\ \E i \in Running :
         LET url == product_urls[i]
         IN  /\ \/ \* the navigation or the extraction raises
                   /\ tasks' = AfterRaise(tasks, i)
                   /\ outcomes' = outcomes \cup
                          {[url |-> url, result |-> "extraction failed"]}
                   /\ UNCHANGED <<products_to_save, calls>>
                \/ \E answer \in {"result", "raise"} :
                     /\ dry_run => answer = "result"
                     /\ tasks' = [tasks EXCEPT ![i].st = "done"]
                     /\ calls' = IF dry_run THEN calls
                                 ELSE calls \cup {[op |-> "exists", url |-> url]}
                     /\ IF AlreadyExists(answer, url)
                        THEN /\ outcomes' = outcomes \cup
                                    {[url |-> url, result |-> "already exists"]}
                             /\ UNCHANGED products_to_save
                        ELSE /\ outcomes' = outcomes \cup
                                    {[url |-> url, result |-> "extracted"]}
                             /\ products_to_save' =
                                    Append(products_to_save,
                                           ProductDataAf(url, HasImage(url)))
    /\ UNCHANGED <<prog, pc, page_num, served, browsers, store, processed_urls,
                   products_found, products_saved, total_processed, product_urls,
                   handed, AfConfig, AfUnused>>

\* a batch that goes on without waiting for its tasks
GatherNotAwaited == TRUE

\* "await asyncio.gather(*tasks, return_exceptions=True)" has returned
GatherDone == \A i \in 1..Len(tasks) : tasks[i].st = "done"

\* "if image_urls and not self.dry_run and self.embedder"
ShouldEmbed ==
    /\ \E i \in 1..Len(products_to_save) : products_to_save[i].image_url # <<>>
    /\ ~dry_run
    /\ embedder

\* _process_product_batch after the gather: generate_embeddings_batch, whose
\* dictionary holds None for an image it could not embed
AfEmbed ==
    /\ prog = "af" /\ pc = "af_tasks"
    /\ GatherDone
    /\ IF ShouldEmbed
       THEN \E embeddings \in [1..Len(products_to_save) -> {"vector", "unset"}] :
              /\ products_to_save' =
                     [i \in 1..Len(products_to_save) |->
                        IF products_to_save[i].image_url # <<>>
                        THEN [products_to_save[i] EXCEPT !.embedding = embeddings[i]]
                        ELSE products_to_save[i]]
              /\ calls' = calls \cup
                     {[op |-> "embed", url |-> products_to_save[i].product_url] :
                        i \in {j \in 1..Len(products_to_save) :
                                 products_to_save[j].image_url # <<>>}}
       ELSE UNCHANGED <<products_to_save, calls>>
    /\ pc' = "af_save"
    /\ UNCHANGED <<prog, page_num, served, browsers, store, outcomes, processed_urls,
                   products_found, products_saved, total_processed, product_urls,
                   tasks, handed, AfConfig, AfUnused>>

\* what uuid.uuid4() may return
Uuids == {<<"uuid", "1">>, <<"uuid", "2">>}

\* an insert that gives every row an id of its own
WithNewId(product, uuid) ==
    [f \in DOMAIN product \cup {"id"} |-> IF f = "id" THEN uuid ELSE product[f]]

\* insert_products_batch: "if 'id' not in product: product['id'] = str(uuid.uuid4())"
WithId(product, uuid) ==
    IF "id" \in DOMAIN product THEN product
    ELSE [f \in DOMAIN product \cup {"id"} |-> IF f = "id" THEN uuid ELSE product[f]]

\* an insert that does not look at dry_run
InsertsWhenever == products_to_save # <<>>

\* "if products_to_save and not self.dry_run"
ShouldInsert == products_to_save # <<>> /\ ~dry_run

\* _process_product_batch: "Save to database" (insert_products_batch returns 0
\* when the insert raises), the return, which ends the life of the batch's
\* locals, and the counters of the caller, which does not read product_urls
\* again; or page.close() raises in the finally and the caller's counters
\* are not reached: the exception leaves through scrape's except
AfSave ==
    /\ prog = "af" /\ pc = "af_save"
    /\ IF ShouldInsert
       THEN /\ calls' = calls \cup
                   {[op |-> "insert", url |-> r.product_url] :
                      r \in Range(products_to_save)}
            /\ \/ /\ \E uuid \in Uuids :
                       store' = store \cup
                         {WithId(r, uuid) :
                            r \in {q \in Range(products_to_save) :
                                     q.product_url # Fresh}}
                  /\ products_saved' = Plus(products_saved, Len(products_to_save))
               \/ UNCHANGED <<store, products_saved>>
       ELSE /\ products_saved' = Plus(products_saved, Len(products_to_save))
            /\ UNCHANGED <<store, calls>>
    /\ \/ /\ total_processed' = Plus(total_processed, Len(products_to_save))
          /\ products_found' = Plus(products_found, Len(product_urls))
          /\ pc' = "af_next"
       \/ /\ UNCHANGED <<total_processed, products_found>>
          /\ pc' = "crashed"
    /\ tasks' = <<>>
    /\ products_to_save' = <<>>
    /\ product_urls' = <<>>
    /\ UNCHANGED <<prog, page_num, served, browsers, outcomes, processed_urls,
                   handed, AfConfig, AfUnused>>

\* "if max_products and total_processed >= max_products"
LimitReached == max_products # 0 /\ total_processed >= max_products

\* _scrape_category_page: the tail of an iteration: the limit, then
\* _go_to_next_page, which returns False when it finds no control or raises
AfNext ==
    /\ prog = "af" /\ pc = "af_next"
    /\ IF LimitReached
       THEN pc' = "done" /\ UNCHANGED page_num
       ELSE \E next_page_found \in BOOLEAN :
              IF next_page_found
              THEN pc' = "af_extract" /\ page_num' = Plus(page_num, 1)
              ELSE pc' = "done" /\ UNCHANGED page_num
    /\ UNCHANGED <<prog, served, browsers, store, outcomes, processed_urls,
                   products_found, products_saved, total_processed, product_urls,
                   tasks, products_to_save, handed, calls, AfConfig, AfUnused>>

NextAF ==
    \/ AfSetup \/ AfOpen \/ AfExtract \/ AfFallback \/ AfRetry
    \/ AfBatchStart \/ AfTaskStart \/ AfTaskFinish \/ AfEmbed \/ AfSave \/ AfNext

SpecAF == InitAF /\ [][NextAF]_vars

\* the event loop keeps running whatever step is ready
FairSpecAF == SpecAF /\ WF_vars(NextAF)

\* _process_product_batch on its own: the batches that _scrape_category_page
\* may hand over, lists of distinct URLs that processed_urls holds
Batches ==
    {b \in SeqsUpTo({UrlA, UrlB, Fresh}, MaxBatch) :
        b # <<>> /\ \A i, j \in 1..Len(b) : i # j => b[i] # b[j]}

InitBatch ==
    /\ prog = "af"
    /\ pc = "af_batch"
    /\ dry_run \in BOOLEAN
    /\ embedder \in BOOLEAN
    /\ max_products = 0
    /\ max_concurrent_pages \in 1..MaxConc
    /\ brand_gender = "MAN"
    /\ store \in StoredBefore
    /\ stored_before = store
    /\ max_pages = 0
    /\ categories = <<>>
    /\ cat_kind = "none"
    /\ subs_left = 0
    /\ run_all = <<>>
    /\ cat_all = <<>>
    /\ sub_all = <<>>
    /\ start = 0
    /\ page_num = 1
    /\ fetched = <<>>
    /\ listing_log = <<>>
    /\ served = 0
    /\ browsers = 1
    /\ unique_products = <<>>
    /\ products_with_embeddings = <<>>
    /\ emb_idx = 0
    /\ save_idx = 0
    /\ saved_count = 0
    /\ dd = NoDedup
    /\ all_product_urls = <<>>
    /\ products = <<>>
    /\ url_idx = 0
    /\ outcomes = {}
    /\ product_urls \in Batches
    /\ processed_urls = Range(product_urls)
    /\ products_found = 0
    /\ products_saved = 0
    /\ total_processed = 0
    /\ tasks = <<>>
    /\ products_to_save = <<>>
    /\ handed = <<>>
    /\ calls = {}
    /\ cfg = NoCfg
    /\ exit_code = "none"
    /\ fn = NoFn

NextBatch == AfBatchStart \/ AfTaskStart \/ AfTaskFinish \/ AfEmbed \/ AfSave

SpecBatch == InitBatch /\ [][NextBatch]_vars

\* the event loop keeps running whatever task is ready
FairSpecBatch == SpecBatch /\ WF_vars(NextBatch)

\* ------------------------------------------------ the three deduplications
\* the lists a deduplication may be handed: what extract_products_from_response
\* makes of the products of the site, in any order and number
DedupInputs ==
    {extract_products_from_response([full |-> FALSE, items |-> s], 0) :
        s \in SeqsUpTo(RawPool, MaxLen)}

InitDedup ==
    /\ prog = "dedup"
    /\ pc = "dd_input"
    /\ dd \in {[site |-> "none", inp |-> l, out |-> <<>>] : l \in DedupInputs}
    /\ max_pages = 0
    /\ categories = <<>>
    /\ cat_kind = "none"
    /\ subs_left = 0
    /\ run_all = <<>>
    /\ cat_all = <<>>
    /\ sub_all = <<>>
    /\ start = 0
    /\ page_num = 0
    /\ fetched = <<>>
    /\ listing_log = <<>>
    /\ served = 0
    /\ browsers = 0
    /\ unique_products = <<>>
    /\ products_with_embeddings = <<>>
    /\ emb_idx = 0
    /\ save_idx = 0
    /\ store = {}
    /\ saved_count = 0
    /\ all_product_urls = <<>>
    /\ products = <<>>
    /\ url_idx = 0
    /\ outcomes = {}
    /\ AfIdle

DedupUnused == <<max_pages, categories, cat_kind, subs_left, run_all, cat_all,
                 sub_all, start, page_num, fetched, listing_log, served, browsers,
                 unique_products, products_with_embeddings, emb_idx, save_idx,
                 store, saved_count, pvars, avars, dvars>>

\* scrape_subcategory: "Remove duplicates based on product URL"
DedupSubcategory ==
    /\ prog = "dedup" /\ pc = "dd_input"
    /\ dd' = [dd EXCEPT !.site = "subcategory", !.out = UniqueSubcategory(dd.inp)]
    /\ pc' = "dd_done"
    /\ UNCHANGED <<prog, DedupUnused>>

\* scrape_category: "Remove duplicates across all subcategories"
DedupCategory ==
    /\ prog = "dedup" /\ pc = "dd_input"
    /\ dd' = [dd EXCEPT !.site = "category", !.out = UniqueCategory(dd.inp)]
    /\ pc' = "dd_done"
    /\ UNCHANGED <<prog, DedupUnused>>

\* run_full_scrape: "Remove duplicates based on product_url"
DedupRun ==
    /\ prog = "dedup" /\ pc = "dd_input"
    /\ dd' = [dd EXCEPT !.site = "run", !.out = UniqueRun(dd.inp)]
    /\ pc' = "dd_done"
    /\ UNCHANGED <<prog, DedupUnused>>

NextDedup == DedupSubcategory \/ DedupCategory \/ DedupRun

SpecDedup == InitDedup /\ [][NextDedup]_vars

\* ------------------------------------------- the gender inference on its own
\* productPageUrl values with and without a gender marker
GenderPaths ==
    {ShopEu \o <<"/">> \o seg \o <<"/", "p", "/", "123">> :
        seg \in {Mens \o <<"-bottoms">>, Womens \o <<"-tops">>, Mens, Womens,
                 <<"kids">>}}

InitGender ==
    /\ prog = "gender"
    /\ pc = "fn_input"
    /\ fn \in {[name |-> "input", url |-> u, breadcrumbs |-> b, field |-> f,
                 out |-> "none"] :
                 u \in GenderPaths, b \in SeqsUpTo(BreadcrumbTexts, MaxCrumbs),
                 f \in {"", "M", "F"}}
    /\ cfg = NoCfg
    /\ exit_code = "none"
    /\ max_pages = 0
    /\ categories = <<>>
    /\ cat_kind = "none"
    /\ subs_left = 0
    /\ run_all = <<>>
    /\ cat_all = <<>>
    /\ sub_all = <<>>
    /\ start = 0
    /\ page_num = 0
    /\ fetched = <<>>
    /\ listing_log = <<>>
    /\ served = 0
    /\ browsers = 0
    /\ unique_products = <<>>
    /\ products_with_embeddings = <<>>
    /\ emb_idx = 0
    /\ save_idx = 0
    /\ store = {}
    /\ saved_count = 0
    /\ dd = NoDedup
    /\ all_product_urls = <<>>
    /\ products = <<>>
    /\ url_idx = 0
    /\ outcomes = {}
    /\ dry_run = FALSE
    /\ embedder = FALSE
    /\ max_products = 0
    /\ max_concurrent_pages = 1
    /\ brand_gender = "MAN"
    /\ processed_urls = {}
    /\ products_found = 0
    /\ products_saved = 0
    /\ total_processed = 0
    /\ product_urls = <<>>
    /\ tasks = <<>>
    /\ products_to_save = <<>>
    /\ handed = <<>>
    /\ calls = {}
    /\ stored_before = {}

FnUnused == <<mvars, pvars, avars, cfg, exit_code>>

\* scrape_product_details: the gender it gives the product of a page
GenderPs ==
    /\ prog = "gender" /\ pc = "fn_input"
    /\ fn' = [fn EXCEPT !.name = "ps_gender",
                        !.out = ps_gender(Origin \o fn.url, fn.breadcrumbs)]
    /\ pc' = "fn_done"
    /\ UNCHANGED <<prog, FnUnused>>

\* extract_products_from_response: the gender of the record it builds for a
\* product of the API
GenderApi ==
    /\ prog = "gender" /\ pc = "fn_input"
    /\ fn' = [fn EXCEPT
                 !.name = "api_gender",
                 !.out = ProductInfo([productPageUrl |-> fn.url, id |-> <<>>,
                                      name |-> "a", imageUrl |-> <<>>], 0).gender]
    /\ pc' = "fn_done"
    /\ UNCHANGED <<prog, FnUnused>>

\* APIScraper.extract_gender
GenderExtract ==
    /\ prog = "gender" /\ pc = "fn_input"
    /\ fn' = [fn EXCEPT !.name = "extract_gender",
                        !.out = extract_gender(fn.field, fn.url)]
    /\ pc' = "fn_done"
    /\ UNCHANGED <<prog, FnUnused>>

NextGender == GenderPs \/ GenderApi \/ GenderExtract

SpecGender == InitGender /\ [][NextGender]_vars

\* ------------------------------------------------------- the price parsers
\* A text is a sequence of lexemes: the currency signs, the space, the comma,
\* the dot, groups of two digits and a word.  A price is None or a decimal
\* number, kept as the digits before the point and the digits after it (none
\* for a whole number): with these groups two numbers are equal when their
\* digits are.
Digits == {"12", "45", "90"}

PriceLexemes == {"€", "$", " ", ",", ".", "abc"} \cup Digits

None == [none |-> TRUE]

Decimal(whole, frac) == [whole |-> whole, frac |-> frac]

\* the index after the digits ("\d+") that begin at i; i when none does
RECURSIVE RunEnd(_, _)
RunEnd(text, i) ==
    IF i <= Len(text) /\ text[i] \in Digits THEN RunEnd(text, i + 1) ELSE i

\* the digits from i up to j
RunVal(text, i, j) == SubSeq(text, i, j - 1)

\* the index after the spaces ("\s*") that begin at i
RECURSIVE SkipSpaces(_, _)
SkipSpaces(text, i) ==
    IF i <= Len(text) /\ text[i] = " " THEN SkipSpaces(text, i + 1) ELSE i

\* "(\d+(?:[,.]\d+)?)" at i, with or without its optional part: whether it
\* matches, float(group.replace(',', '.')), and the index after the match
NumberAt(text, i, with_frac) ==
    LET e == RunEnd(text, i)
        f == RunEnd(text, e + 1)
    IN  IF e = i THEN [ok |-> FALSE]
        ELSE IF ~with_frac
        THEN [ok |-> TRUE, price |-> Decimal(RunVal(text, i, e), <<>>), next |-> e]
        ELSE IF e <= Len(text) /\ text[e] \in {",", "."} /\ f > e + 1
        THEN [ok |-> TRUE,
              price |-> Decimal(RunVal(text, i, e), RunVal(text, e + 1, f)),
              next |-> f]
        ELSE [ok |-> FALSE]

\* sign, spaces if allowed, number: the match that begins at i, the number
\* taken with its optional part when it has one
SignFirstAt(text, i, sign, spaces) ==
    LET n == IF spaces THEN SkipSpaces(text, i + 1) ELSE i + 1
    IN  IF i <= Len(text) /\ text[i] = sign
        THEN IF NumberAt(text, n, TRUE).ok THEN NumberAt(text, n, TRUE)
             ELSE NumberAt(text, n, FALSE)
        ELSE [ok |-> FALSE]

\* number, spaces, sign: the match that begins at i, the optional part of the
\* number given up when the sign does not follow it
SignLastAt(text, i, sign) ==
    LET long == NumberAt(text, i, TRUE)
        short == NumberAt(text, i, FALSE)
        Followed(n) == /\ n.ok
                       /\ SkipSpaces(text, n.next) <= Len(text)
                       /\ text[SkipSpaces(text, n.next)] = sign
    IN  IF Followed(long) THEN long
        ELSE IF Followed(short) THEN short
        ELSE [ok |-> FALSE]

\* re.search: the leftmost match of a pattern, at[i] being its match at i
Search(at) ==
    IF \E i \in 1..Len(at) : at[i].ok
    THEN at[CHOOSE i \in 1..Len(at) : at[i].ok /\ \A j \in 1..(i - 1) : ~at[j].ok]
    ELSE [ok |-> FALSE]

\* AbercrombieFitchScraper._parse_price: the four patterns in turn
parse_price(price_text) ==
    LET at == 1..Len(price_text)
        p1 == Search([i \in at |-> SignFirstAt(price_text, i, "€", TRUE)])
        p2 == Search([i \in at |-> SignFirstAt(price_text, i, "$", FALSE)])
        p3 == Search([i \in at |-> SignLastAt(price_text, i, "€")])
        p4 == Search([i \in at |-> SignLastAt(price_text, i, "$")])
    IN  IF price_text = <<>> THEN None
        ELSE IF p1.ok THEN p1.price
        ELSE IF p2.ok THEN p2.price
        ELSE IF p3.ok THEN p3.price
        ELSE IF p4.ok THEN p4.price
        ELSE None

\* _extract_product_data: the price and currency of the record, the currency
\* being self.config.brand.currency
af_price(price_text, brand_currency) ==
    [price |-> parse_price(price_text), currency |-> brand_currency]

\* re.search(r'[\d,]+\.?\d*', text) on a text without commas, and float() of
\* the match
FirstNumber(text) ==
    LET At(i) ==
          LET e == RunEnd(text, i)
              f == IF e <= Len(text) /\ text[e] = "." THEN RunEnd(text, e + 1)
                   ELSE e
          IN  IF e = i THEN [ok |-> FALSE]
              ELSE [ok |-> TRUE,
                    price |-> IF f > e + 1
                              THEN Decimal(RunVal(text, i, e), RunVal(text, e + 1, f))
                              ELSE Decimal(RunVal(text, i, e), <<>>)]
    IN  Search([i \in 1..Len(text) |-> At(i)])

\* scrape_product_details: "Method 1: Try selectors" on the text of the price
\* element, matched after price_text.replace(',', ''), and
\* "product_data['currency'] = currency or 'EUR'"
ps_price(price_text) ==
    LET m == FirstNumber(SelectSeq(price_text, LAMBDA x : x # ","))
    IN  IF m.ok
        THEN [price    |-> m.price,
              currency |-> IF Contains(price_text, <<"€">>) THEN "EUR"
                           ELSE IF Contains(price_text, <<"$">>) THEN "USD"
                           ELSE "EUR"]
        ELSE [price |-> None, currency |-> "EUR"]

\* what the configuration file may give for brand.currency
BrandCurrencies == {"EUR", "USD"}

InitPrice ==
    /\ prog = "price"
    /\ pc = "fn_input"
    /\ fn \in {[name |-> "input", text |-> t, currency |-> c, out |-> None] :
                 t \in SeqsUpTo(PriceLexemes, MaxText), c \in BrandCurrencies}
    /\ cfg = NoCfg
    /\ exit_code = "none"
    /\ max_pages = 0
    /\ categories = <<>>
    /\ cat_kind = "none"
    /\ subs_left = 0
    /\ run_all = <<>>
    /\ cat_all = <<>>
    /\ sub_all = <<>>
    /\ start = 0
    /\ page_num = 0
    /\ fetched = <<>>
    /\ listing_log = <<>>
    /\ served = 0
    /\ browsers = 0
    /\ unique_products = <<>>
    /\ products_with_embeddings = <<>>
    /\ emb_idx = 0
    /\ save_idx = 0
    /\ store = {}
    /\ saved_count = 0
    /\ dd = NoDedup
    /\ all_product_urls = <<>>
    /\ products = <<>>
    /\ url_idx = 0
    /\ outcomes = {}
    /\ dry_run = FALSE
    /\ embedder = FALSE
    /\ max_products = 0
    /\ max_concurrent_pages = 1
    /\ brand_gender = "MAN"
    /\ processed_urls = {}
    /\ products_found = 0
    /\ products_saved = 0
    /\ total_processed = 0
    /\ product_urls = <<>>
    /\ tasks = <<>>
    /\ products_to_save = <<>>
    /\ handed = <<>>
    /\ calls = {}
    /\ stored_before = {}

\* _extract_product_data: the price and the currency it gives a product
PriceAf ==
    /\ prog = "price" /\ pc = "fn_input"
    /\ fn' = [fn EXCEPT !.name = "af_price",
                        !.out = af_price(fn.text, fn.currency)]
    /\ pc' = "fn_done"
    /\ UNCHANGED <<prog, FnUnused>>

\* scrape_product_details: the price and the currency it gives a product
PricePs ==
    /\ prog = "price" /\ pc = "fn_input"
    /\ fn' = [fn EXCEPT !.name = "ps_price", !.out = ps_price(fn.text)]
    /\ pc' = "fn_done"
    /\ UNCHANGED <<prog, FnUnused>>

NextPrice == PriceAf \/ PricePs

SpecPrice == InitPrice /\ [][NextPrice]_vars

\* ------------------------------------------------- discovery on its own
\* what a category page may hold besides the items of the pipeline: a
\* JSON-LD value that is a path, and an anchor whose query names a product
DiscoveryPool ==
    AfPool \cup
    { [via |-> "jsonld", href |-> <<"/", "p", "/", "E">>],
      [via |-> "dom",    href |-> ShopEu \o <<"/", "x", "?", "/", "p", "/", "A">>] }

\* hrefs of a listing page, and values of data-product-url attributes
DiscoveryHrefs == PsHrefs \cup {ShopEu \o <<"/", "x", "?", "/", "p", "/", "A">>}
DataUrls == {ShopEu \o <<"/", "p", "/", "B">>, <<"http:", "/", "/", "[", "/", "p", "/", "1">>}

\* _scrape_category_page: the product_urls of the first iteration on a page:
\* _extract_product_urls, the URLs of the intercepted responses, and the
\* search of the scripts when there is still none
category_page_urls(items) ==
    LET found == urls_from_methods(items, {}, "none")
        added == AddLoose("api", items, 1,
                          [urls |-> found.urls, processed |-> found.processed])
    IN  IF added.urls # <<>> THEN added.urls
        ELSE AddLoose("script", items, 1, added).urls

InitDiscovery ==
    /\ prog = "discovery"
    /\ pc = "fn_input"
    /\ fn \in {[name |-> "input", items |-> i, failing |-> f,
                 links |-> <<>>, late |-> <<>>, data |-> <<>>, out |-> <<>>] :
                 i \in SeqsUpTo(DiscoveryPool, MaxItems),
                 f \in {"none", "dom", "jsonld", "script", "card"}}
            \cup
            {[name |-> "input", items |-> <<>>, failing |-> f,
              links |-> l, late |-> t, data |-> d, out |-> <<>>] :
                 l \in SeqsUpTo(DiscoveryHrefs, MaxItems),
                 t \in SeqsUpTo(DiscoveryHrefs, 1),
                 d \in SeqsUpTo(DataUrls, 1),
                 f \in {"none", "js"}}
    /\ cfg = NoCfg
    /\ exit_code = "none"
    /\ max_pages = 0
    /\ categories = <<>>
    /\ cat_kind = "none"
    /\ subs_left = 0
    /\ run_all = <<>>
    /\ cat_all = <<>>
    /\ sub_all = <<>>
    /\ start = 0
    /\ page_num = 0
    /\ fetched = <<>>
    /\ listing_log = <<>>
    /\ served = 0
    /\ browsers = 0
    /\ unique_products = <<>>
    /\ products_with_embeddings = <<>>
    /\ emb_idx = 0
    /\ save_idx = 0
    /\ store = {}
    /\ saved_count = 0
    /\ dd = NoDedup
    /\ all_product_urls = <<>>
    /\ products = <<>>
    /\ url_idx = 0
    /\ outcomes = {}
    /\ dry_run = FALSE
    /\ embedder = FALSE
    /\ max_products = 0
    /\ max_concurrent_pages = 1
    /\ brand_gender = "MAN"
    /\ processed_urls = {}
    /\ products_found = 0
    /\ products_saved = 0
    /\ total_processed = 0
    /\ product_urls = <<>>
    /\ tasks = <<>>
    /\ products_to_save = <<>>
    /\ handed = <<>>
    /\ calls = {}
    /\ stored_before = {}

\* _extract_product_urls on a page, one of its methods raising or none
DiscoverAf ==
    /\ prog = "discovery" /\ pc = "fn_input"
    /\ fn.failing # "js" /\ fn.links = <<>> /\ fn.late = <<>> /\ fn.data = <<>>
    /\ fn' = [fn EXCEPT !.name = "extract_product_urls",
                        !.out = urls_from_methods(fn.items, {}, fn.failing).urls]
    /\ pc' = "fn_done"
    /\ UNCHANGED <<prog, FnUnused>>

\* _scrape_category_page: the URLs it hands on for a first page
DiscoverCategory ==
    /\ prog = "discovery" /\ pc = "fn_input"
    /\ fn.failing = "none" /\ fn.links = <<>> /\ fn.late = <<>> /\ fn.data = <<>>
    /\ fn' = [fn EXCEPT !.name = "category_page_urls",
                        !.out = category_page_urls(fn.items)]
    /\ pc' = "fn_done"
    /\ UNCHANGED <<prog, FnUnused>>

\* get_product_urls_from_page on a page, the evaluation in the page raising
\* or not
DiscoverPs ==
    /\ prog = "discovery" /\ pc = "fn_input"
    /\ fn.failing \in {"none", "js"} /\ fn.items = <<>>
    /\ fn' = [fn EXCEPT !.name = "get_product_urls_from_page",
                        !.out = product_urls_from(fn.links, fn.late, fn.data,
                                                  fn.failing = "js")]
    /\ pc' = "fn_done"
    /\ UNCHANGED <<prog, FnUnused>>

NextDiscovery == DiscoverAf \/ DiscoverCategory \/ DiscoverPs

SpecDiscovery == InitDiscovery /\ [][NextDiscovery]_vars

\* ---------------------------------------------------- image acquisition
\* embedding_generator.py and embeddings/siglip_processor.py: an image URL
\* is its host, a slash and the name of the image with its suffix
ImageUrls ==
    {<<h, "/", "KIC">> \o s : h \in {"anf.scene7.com", "img.abercrombie.com"},
                               s \in {<<"_prod1">>, <<"_life1">>}}

\* str.replace(old, new) of a URL, new being empty or one lexeme
RECURSIVE replace(_, _, _)
replace(url, old, new) ==
    IF url = <<>> THEN <<>>
    ELSE (IF Head(url) = old THEN new ELSE <<Head(url)>>) \o replace(Tail(url), old, new)

\* download_image: the alternate URLs of approach 3, in the order tried
alt_urls(image_url) ==
    << replace(image_url, "_prod1", <<"_model1">>),
       replace(image_url, "_prod1", <<>>),
       replace(image_url, "anf.scene7.com", <<"images.abercrombie.com">>) >>

\* one request for the image: how it was made, to which URL, whether it gave
\* an image
Attempt(kind, url, ok) == [kind |-> kind, url |-> url, ok |-> ok]

\* the caller and the site a download meets: which class downloads, whether
\* it has a browser page, what the page navigation gives, whether the fetch
\* with the cookies of the context is accepted, the URLs a plain fetch is
\* served, the state of the cache file and whether saving to it succeeds
ImageInputsOf(u) ==
    {[name |-> "input", impl |-> "EmbeddingGenerator", browser_page |-> TRUE,
      nav |-> n, cookies_ok |-> c, cache |-> "absent", save_ok |-> TRUE,
      url |-> u, ok |-> o, k |-> 1, attempts |-> <<>>, out |-> "unset"] :
        n \in {"image", "null", "raise"}, c \in BOOLEAN,
        o \in SUBSET ({u} \cup Range(alt_urls(u)))}
    \cup
    {[name |-> "input", impl |-> "EmbeddingGenerator", browser_page |-> FALSE,
      nav |-> "null", cookies_ok |-> FALSE, cache |-> "absent", save_ok |-> TRUE,
      url |-> u, ok |-> o, k |-> 1, attempts |-> <<>>, out |-> "unset"] :
        o \in SUBSET ({u} \cup Range(alt_urls(u)))}
    \cup
    {[name |-> "input", impl |-> "SiglipEmbedder", browser_page |-> FALSE,
      nav |-> "null", cookies_ok |-> FALSE, cache |-> c, save_ok |-> s,
      url |-> u, ok |-> o, k |-> 1, attempts |-> <<>>, out |-> "unset"] :
        c \in {"absent", "image", "unreadable"}, s \in BOOLEAN,
        o \in SUBSET ({u} \cup Range(alt_urls(u)))}

ImageInputs == UNION {ImageInputsOf(u) : u \in ImageUrls}

InitImage ==
    /\ prog = "image"
    /\ pc = "fn_input"
    /\ fn \in ImageInputs
    /\ cfg = NoCfg
    /\ exit_code = "none"
    /\ max_pages = 0
    /\ categories = <<>>
    /\ cat_kind = "none"
    /\ subs_left = 0
    /\ run_all = <<>>
    /\ cat_all = <<>>
    /\ sub_all = <<>>
    /\ start = 0
    /\ page_num = 0
    /\ fetched = <<>>
    /\ listing_log = <<>>
    /\ served = 0
    /\ browsers = 0
    /\ unique_products = <<>>
    /\ products_with_embeddings = <<>>
    /\ emb_idx = 0
    /\ save_idx = 0
    /\ store = {}
    /\ saved_count = 0
    /\ dd = NoDedup
    /\ all_product_urls = <<>>
    /\ products = <<>>
    /\ url_idx = 0
    /\ outcomes = {}
    /\ dry_run = FALSE
    /\ embedder = FALSE
    /\ max_products = 0
    /\ max_concurrent_pages = 1
    /\ brand_gender = "MAN"
    /\ processed_urls = {}
    /\ products_found = 0
    /\ products_saved = 0
    /\ total_processed = 0
    /\ product_urls = <<>>
    /\ tasks = <<>>
    /\ products_to_save = <<>>
    /\ handed = <<>>
    /\ calls = {}
    /\ stored_before = {}

\* a download that ends: with the image of the attempt just made, or with
\* None
Returned(attempt, out) ==
    [fn EXCEPT !.name = "returned", !.attempts = Append(@, attempt), !.out = out]

\* a download that goes on after a failed attempt
Failed(attempt) == [fn EXCEPT !.name = "downloading", !.attempts = Append(@, attempt)]

\* EmbeddingGenerator.download_image, approach 1 with a browser page: a new
\* page navigates to the image; no image data, or a raise, leads to approach 2
ImageNavigate ==
    /\ prog = "image" /\ pc = "fn_input"
    /\ fn.impl = "EmbeddingGenerator" /\ fn.browser_page
    /\ IF fn.nav = "image"
       THEN fn' = Returned(Attempt("navigate", fn.url, TRUE), "image") /\ pc' = "fn_done"
       ELSE fn' = Failed(Attempt("navigate", fn.url, FALSE)) /\ pc' = "image_cookies"
    /\ UNCHANGED <<prog, FnUnused>>

\* download_image, approach 2: requests.get with the cookies of the context
ImageCookies ==
    /\ prog = "image" /\ pc = "image_cookies"
    /\ IF fn.cookies_ok
       THEN fn' = Returned(Attempt("cookies", fn.url, TRUE), "image") /\ pc' = "fn_done"
       ELSE fn' = Failed(Attempt("cookies", fn.url, FALSE)) /\ pc' = "image_alt"
    /\ UNCHANGED <<prog, FnUnused>>

\* download_image, approach 3: one round of the loop over alt_urls, a plain
\* requests.get without cookies; after the last one, return None
ImageAlternate ==
    /\ prog = "image" /\ pc = "image_alt"
    /\ LET alt_url == alt_urls(fn.url)[fn.k]
       IN  IF alt_url \in fn.ok
           THEN fn' = Returned(Attempt("alternate", alt_url, TRUE), "image") /\ pc' = "fn_done"
           ELSE IF fn.k = Len(alt_urls(fn.url))
                THEN /\ fn' = Returned(Attempt("alternate", alt_url, FALSE), "none")
                     /\ pc' = "fn_done"
                ELSE /\ fn' = [Failed(Attempt("alternate", alt_url, FALSE)) EXCEPT !.k = @ + 1]
                     /\ pc' = "image_alt"
    /\ UNCHANGED <<prog, FnUnused>>

\* download_image without a browser page: one requests.get, and None from
\* the outer except when it is rejected
ImageDirect ==
    /\ prog = "image" /\ pc = "fn_input"
    /\ fn.impl = "EmbeddingGenerator" /\ ~fn.browser_page
    /\ fn' = Returned(Attempt("direct", fn.url, fn.url \in fn.ok),
                      IF fn.url \in fn.ok THEN "image" ELSE "none")
    /\ pc' = "fn_done"
    /\ UNCHANGED <<prog, FnUnused>>

\* SiglipEmbedder._download_image: the cache file first, returned when it
\* opens
ImageCached ==
    /\ prog = "image" /\ pc = "fn_input"
    /\ fn.impl = "SiglipEmbedder"
    /\ IF fn.cache = "image"
       THEN fn' = [fn EXCEPT !.name = "returned", !.out = "image"] /\ pc' = "fn_done"
       ELSE fn' = [fn EXCEPT !.name = "downloading"] /\ pc' = "image_fetch"
    /\ UNCHANGED <<prog, FnUnused>>

\* _download_image: one requests.get; the image is returned after
\* image.save to the cache, whose raise is caught with the rest and gives
\* None
ImageFetch ==
    /\ prog = "image" /\ pc = "image_fetch"
    /\ fn' = Returned(Attempt("direct", fn.url, fn.url \in fn.ok),
                      IF fn.url \in fn.ok /\ fn.save_ok THEN "image" ELSE "none")
    /\ pc' = "fn_done"
    /\ UNCHANGED <<prog, FnUnused>>

NextImage ==
    \/ ImageNavigate
    \/ ImageCookies
    \/ ImageAlternate
    \/ ImageDirect
    \/ ImageCached
    \/ ImageFetch

SpecImage == InitImage /\ [][NextImage]_vars

\* ------------------------------------------------------------ run_daily.py
\* the configuration file as the run finds it
ConfigFiles == {"missing", "malformed", "ok"}

\* a check of the configuration that looks at the credentials only
ValidatesCredentialsOnly(c, concurrent) == c.url /\ c.key

\* Config._validate: TRUE when it raises nothing
Validates(c, concurrent) ==
    /\ c.url
    /\ c.key
    /\ concurrent >= 1
    /\ c.request_delay >= 0

\* main: "if not args.dry_run: if not os.getenv('SUPABASE_URL') or not
\* os.getenv('SUPABASE_ANON_KEY')"
EnvCheckFails == ~dry_run /\ (~cfg.url \/ ~cfg.key)

InitDaily ==
    /\ prog = "daily"
    /\ pc = "daily_main"
    /\ cfg \in {[file |-> f, url |-> u, key |-> k, request_delay |-> d] :
                  f \in ConfigFiles, u \in BOOLEAN, k \in BOOLEAN, d \in {0 - 1, 0}}
    /\ exit_code = "none"
    /\ fn = NoFn
    /\ dry_run \in BOOLEAN
    /\ embedder = FALSE
    /\ max_products \in 0..MaxProductsArg
    /\ max_concurrent_pages \in 0..MaxConc
    /\ brand_gender \in BrandGenders
    /\ store \in StoredBefore
    /\ stored_before = store
    /\ max_pages = 0
    /\ categories = <<>>
    /\ cat_kind = "none"
    /\ subs_left = 0
    /\ run_all = <<>>
    /\ cat_all = <<>>
    /\ sub_all = <<>>
    /\ start = 0
    /\ page_num = 0
    /\ fetched = <<>>
    /\ listing_log = <<>>
    /\ served = 0
    /\ browsers = 0
    /\ unique_products = <<>>
    /\ products_with_embeddings = <<>>
    /\ emb_idx = 0
    /\ save_idx = 0
    /\ saved_count = 0
    /\ dd = NoDedup
    /\ all_product_urls = <<>>
    /\ products = <<>>
    /\ url_idx = 0
    /\ outcomes = {}
    /\ processed_urls = {}
    /\ products_found = 0
    /\ products_saved = 0
    /\ total_processed = 0
    /\ product_urls = <<>>
    /\ tasks = <<>>
    /\ products_to_save = <<>>
    /\ handed = <<>>
    /\ calls = {}

DailyUnused == <<mvars, pvars, dry_run, max_products, max_concurrent_pages,
                 brand_gender, processed_urls, products_found, products_saved,
                 total_processed, product_urls, tasks, products_to_save, handed,
                 calls, stored_before, cfg, fn>>

\* main: the arguments and the check of the environment, which ends the
\* process with sys.exit(1)
DailyMain ==
    /\ prog = "daily" /\ pc = "daily_main"
    /\ IF EnvCheckFails
       THEN exit_code' = "1" /\ pc' = "exited"
       ELSE exit_code' = exit_code /\ pc' = "daily_load"
    /\ UNCHANGED <<prog, embedder, DailyUnused>>

\* run_daily_scrape up to the scraper: the file that does not exist makes it
\* return False; Config(config_path) raises on a file it cannot read and when
\* _validate fails, and so may the constructor of the scraper; nothing catches
\* these, and the interpreter ends with code 1.  The constructor sets embedder
\* to None when the import fails.
DailyLoad ==
    /\ prog = "daily" /\ pc = "daily_load"
    /\ IF cfg.file # "ok" \/ ~Validates(cfg, max_concurrent_pages)
       THEN /\ exit_code' = "1"
            /\ pc' = "exited"
            /\ UNCHANGED <<prog, embedder>>
       ELSE \/ /\ exit_code' = "1"
               /\ pc' = "exited"
               /\ UNCHANGED <<prog, embedder>>
            \/ /\ embedder' \in BOOLEAN
               /\ prog' = "af"
               /\ pc' = "af_setup"
               /\ UNCHANGED exit_code
    /\ UNCHANGED DailyUnused

\* run_daily_scrape after scraper.scrape, which catches what its run raises
\* and reports success False: the finally with scraper.cleanup(), and
\* sys.exit(0 if success else 1)
DailyExit ==
    /\ prog = "af" /\ cfg.file # "n/a" /\ exit_code = "none"
    /\ pc \in {"done", "crashed"}
    /\ exit_code' = IF pc = "done" THEN "0" ELSE "1"
    /\ pc' = "exited"
    /\ browsers' = 0
    /\ UNCHANGED <<prog, embedder, max_pages, categories, cat_kind, subs_left,
                   run_all, cat_all, sub_all, start, page_num, fetched, listing_log,
                   served, unique_products, products_with_embeddings, emb_idx,
                   save_idx, store, saved_count, dd, pvars, dry_run, max_products,
                   max_concurrent_pages, brand_gender, processed_urls,
                   products_found, products_saved, total_processed, product_urls,
                   tasks, products_to_save, handed, calls, stored_before, cfg, fn>>

NextDaily == DailyMain \/ DailyLoad \/ DailyExit \/ NextAF

SpecDaily == InitDaily /\ [][NextDaily]_vars

\* ---------------------------------------------- programs checked together
\* the two offset-increment drivers
InitOffset == InitMain \/ InitPS
NextOffset == NextMain \/ NextPS
SpecOffset == InitOffset /\ [][NextOffset]_vars

\* the two drivers that extract product detail pages one URL at a time
InitExtract == InitAF \/ InitPS
NextExtract == NextAF \/ NextPS
SpecExtract == InitExtract /\ [][NextExtract]_vars

\* the two pipelines that embed records and persist them
InitEmbed == InitMain \/ InitAF
NextEmbed == NextMain \/ NextAF
SpecEmbed == InitEmbed /\ [][NextEmbed]_vars

\* the scheduler keeps running the driver while it has a step to take
FairSpecOffset == SpecOffset /\ WF_vars(NextOffset)

\* ------------------------------------------------------------------ claims
\* C1: after run_full_scrape finishes, the table holds exactly one record for
\* each canonical product URL (scheme + host + path)
C1_OneRecordPerCanonicalUrl ==
    (prog = "main" /\ pc = "done") =>
        \A r1 \in store, r2 \in store :
            (/\ r1.source = r2.source
             /\ Canonical(r1.product_url) = Canonical(r2.product_url)) => r1 = r2

\* the positions of a list that hold the first record seen for a non-empty URL
FirstSeen(inp) ==
    {i \in 1..Len(inp) :
        /\ inp[i].product_url # <<>>
        /\ \A j \in 1..(i - 1) : inp[j].product_url # inp[i].product_url}

\* C2: at each deduplication site (subcategory, category, run) the output is
\* the input restricted to the first record seen for each product URL, in the
\* order of first appearance, and records with an empty URL are dropped
C2_DedupKeepsFirstSeen ==
    dd.site # "none" =>
        LET keep == FirstSeen(dd.inp)
        IN  /\ Len(dd.out) = Cardinality(keep)
            /\ \A k \in 1..Len(dd.out) :
                 \E i \in keep :
                    /\ Cardinality({j \in keep : j <= i}) = k
                    /\ dd.out[k] = dd.inp[i]

\* a list with the URLs A, B, A, C, B deduplicated to its records 1, 2 and 4
C2_Witness ==
    /\ dd.site = "run"
    /\ Len(dd.inp) = 5
    /\ dd.inp[1].product_url = dd.inp[3].product_url
    /\ dd.inp[2].product_url = dd.inp[5].product_url
    /\ Cardinality({dd.inp[1].product_url, dd.inp[2].product_url,
                    dd.inp[4].product_url, <<>>}) = 4
    /\ dd.inp[1].obj # dd.inp[3].obj
    /\ dd.out = <<dd.inp[1], dd.inp[2], dd.inp[4]>>

\* the most requests for listing pages a category run can make: two for each
\* offset from 0 up to the ceiling
FetchCeiling == 2 * (SafetyLimit \div ITEMS_PER_PAGE + 1)

OffsetBounded ==
    /\ start <= SafetyLimit + ITEMS_PER_PAGE
    /\ pc \in {"sub_loop", "ps_loop"} => start <= SafetyLimit
    /\ Len(fetched) <= FetchCeiling

\* C3: both offset-increment loops terminate on every input: a loop is left
\* once start exceeds 1000, so the listing-page fetches of a category run are
\* bounded by a constant that does not depend on max_pages, and the run ends
C3_OffsetLoopsTerminate == []OffsetBounded /\ <>(pc \in {"done", "crashed"})

\* a run without max_pages whose loop was left at the ceiling, every page full
C3_Witness ==
    /\ prog = "main"
    /\ max_pages = 0
    /\ pc = "sub_dedup"
    /\ start > SafetyLimit
    /\ Len(fetched) = SafetyLimit \div Rows + 1

\* C4: _scrape_category_page always reaches the end of its run, even when the
\* site presents a next control forever and keeps yielding fresh URLs
C4_AlwaysReachesDone == <>(pc \in {"done", "crashed"})

\* C5: within one run of the next-control driver no canonical URL is handed to
\* _process_product_batch more than once, whatever strategy discovered it
C5_NoCanonicalUrlHandedTwice ==
    \A i \in 1..Len(handed), j \in 1..Len(handed) :
        Canonical(handed[i]) = Canonical(handed[j]) => i = j

\* C6: with dry_run set, no insert is issued to the table, which stays as it
\* was when the run began
C6_DryRunIssuesNoInsert ==
    (prog = "af" /\ dry_run) =>
        /\ \A c \in calls : c.op # "insert"
        /\ store = stored_before

\* a dry run that extracted a product and is past the save of its batch
C6_Witness ==
    /\ prog = "af"
    /\ dry_run
    /\ pc = "af_next"
    /\ products_saved >= 1
    /\ \E o \in outcomes : o.result = "extracted" /\ o.url = UrlB

\* C7: when the table already holds a record for product URL X and dry_run is
\* not set, X is reported as already existing (unless its extraction failed
\* first) and is never embedded or persisted again
C7_StoredNeverRepeated ==
    (prog = "af" /\ ~dry_run) =>
        \A r \in stored_before :
            /\ [url |-> r.product_url, result |-> "extracted"] \notin outcomes
            /\ [op |-> "embed", url |-> r.product_url] \notin calls
            /\ [op |-> "insert", url |-> r.product_url] \notin calls

\* C8: a failure while extracting one product's detail page is recorded for
\* that URL and does not propagate: every URL of the batch (or sequence) is
\* still tried, and those extracted are kept and handed to the insert
C8_FailureDoesNotPropagate ==
    /\ prog = "af" =>
         /\ \A i \in 1..Len(tasks) :
              tasks[i].st = "done" =>
                 /\ \E o \in outcomes : o.url = product_urls[i]
                 /\ (/\ product_urls[i] # Fresh
                     /\ [url |-> product_urls[i], result |-> "extracted"] \in outcomes)
                    => \E k \in 1..Len(products_to_save) :
                          products_to_save[k].product_url = product_urls[i]
         /\ \A o \in outcomes :
              (/\ o.result = "extracted"
               /\ o.url \notin Range(product_urls)
               /\ ~dry_run)
              => [op |-> "insert", url |-> o.url] \in calls
    /\ prog = "ps" =>
         /\ \A k \in 1..(url_idx - 1) :
              /\ \E o \in outcomes : o.url = all_product_urls[k]
              /\ [url |-> all_product_urls[k], result |-> "ok"] \in outcomes
                 => \E n \in 1..Len(products) :
                       products[n].product_url = all_product_urls[k]
         /\ pc = "done" /\ all_product_urls # <<>> => url_idx = Len(all_product_urls) + 1

\* a batch of two in which one extraction failed and the other product was
\* extracted and inserted
C8_Witness ==
    /\ prog = "af"
    /\ ~dry_run
    /\ pc = "af_next"
    /\ Len(handed) = 2
    /\ [url |-> handed[1], result |-> "extraction failed"] \in outcomes
    /\ [url |-> handed[2], result |-> "extracted"] \in outcomes
    /\ \E r \in store : r.product_url = handed[2] /\ r \notin stored_before

C10_PageBudget ==
    (prog \in {"main", "ps"} /\ max_pages >= 1) =>
        Cardinality(Range(fetched)) <= max_pages

\* the HTML driver stopped by a budget of two pages after fetching two
C10_Witness ==
    /\ prog = "ps"
    /\ max_pages = 2
    /\ pc = "ps_dedup"
    /\ PsBudgetReached
    /\ Range(fetched) = {0, ITEMS_PER_PAGE}

\* C11: with max_products = M, one run of scrape extracts and processes at
\* most M products in total, whatever the sizes of the pages
C11_AtMostMaxProducts ==
    (prog = "af" /\ max_products # 0) =>
        /\ total_processed <= max_products
        /\ Cardinality({o \in outcomes : o.result = "extracted"}) <= max_products

\* the page source of the scenario: a full page at the offsets 0 and pageSize,
\* nothing at 2 * pageSize
ScenarioSource(entry) ==
    entry.count = (IF entry.offset \in {0, ITEMS_PER_PAGE} THEN ITEMS_PER_PAGE ELSE 0)

\* C12: against a page source that returns a full page at the offsets 0 and
\* pageSize and nothing at 2 * pageSize, and without a page budget, an
\* offset-increment driver leaves its loop only on the empty third response,
\* having read the two pages, with start below the safety ceiling
C12_TwoFullPagesThenDone ==
    (/\ prog \in {"main", "ps"}
     /\ max_pages = 0
     /\ pc \in {"sub_dedup", "ps_dedup"}
     /\ \A i \in 1..Len(listing_log) : ScenarioSource(listing_log[i]))
    => /\ listing_log = <<Entry(0, ITEMS_PER_PAGE),
                          Entry(ITEMS_PER_PAGE, ITEMS_PER_PAGE),
                          Entry(2 * ITEMS_PER_PAGE, 0)>>
       /\ start = 2 * ITEMS_PER_PAGE
       /\ start <= SafetyLimit

\* C13: persisting is idempotent on the key (source, product_url): whatever
\* was stored before the run and whatever the run persists, the table holds
\* one row for each key
C13_OneRowPerKey ==
    \A r1 \in store, r2 \in store :
        (r1.source = r2.source /\ r1.product_url = r2.product_url) => r1 = r2

\* the ids of the API for the products that have the product URL of a row
NativeIds(product_url) ==
    {p.id : p \in {q \in RawPool :
                     q.id # <<>> /\ build_product_url(q.productPageUrl) = product_url}}

\* C14: the id of a record that reaches persistence is a function of its
\* product URL (or the id the site gives the product) and is never drawn at
\* random: a row of the API pipeline has the site's id or the hash of its URL,
\* a row of the next-control driver has the id computed from its URL, in this
\* run as in the run that stored the rows found in the table
C14_IdFromUrlOnly ==
    /\ prog = "main" =>
          \A r \in store :
             r.id \in NativeIds(r.product_url) \cup {Md5(r.product_url)}
    /\ prog = "af" =>
          \A r \in store \cup Range(products_to_save) :
             /\ r.id \notin Uuids
             /\ r.id = generate_product_id(r.product_url)

\* a row inserted by the next-control driver, with the id made of the product
\* code in its URL
C14_Witness ==
    /\ prog = "af"
    /\ pc = "af_next"
    /\ \E r \in store \ stored_before :
         r.product_url = UrlB /\ r.id = <<"abercrombie_", "B">>

\* the configuration errors: a credential missing from the environment, the
\* file missing or malformed, max_concurrent_pages < 1, request_delay < 0
ConfigError ==
    \/ ~cfg.url
    \/ ~cfg.key
    \/ cfg.file \in {"missing", "malformed"}
    \/ max_concurrent_pages < 1
    \/ cfg.request_delay < 0

C16_DryRunStillEmbeds ==
    (prog = "af" /\ dry_run /\ embedder /\ pc = "af_save") =>
        \A i \in 1..Len(products_to_save) :
            products_to_save[i].image_url # <<>> =>
                [op |-> "embed", url |-> products_to_save[i].product_url] \in calls

\* the first text of the breadcrumbs that carries a gender marker: "women"
\* for the women's marker, "men" for "men" that is not part of "women"
RECURSIVE MarkerOf(_, _)
MarkerOf(breadcrumbs, i) ==
    IF i > Len(breadcrumbs) THEN "OTHER"
    ELSE IF Contains(breadcrumbs[i], <<"wo", "men">>) THEN "WOMAN"
    ELSE IF Contains(breadcrumbs[i], <<"men">>) THEN "MAN"
    ELSE MarkerOf(breadcrumbs, i + 1)

\* the gender the rule gives: the marker of the URL, else that of the
\* breadcrumbs, else OTHER
InferredGender(url, breadcrumbs) ==
    IF Contains(url, <<"/">> \o Womens) THEN "WOMAN"
    ELSE IF Contains(url, <<"/">> \o Mens) THEN "MAN"
    ELSE MarkerOf(breadcrumbs, 1)

\* C18: gender inference gives MAN for a URL with the men's marker, WOMAN for
\* one with the women's marker, else the gender of the marker found in the
\* breadcrumb text, else OTHER; the API has no breadcrumbs
C18_GenderInference ==
    /\ (prog = "gender" /\ fn.name = "ps_gender") =>
          fn.out = InferredGender(fn.url, fn.breadcrumbs)
    /\ (prog = "gender" /\ fn.name = "api_gender") =>
          fn.out = InferredGender(fn.url, <<>>)

Genders == {"MAN", "WOMAN", "OTHER"}

\* C17: every record that detail extraction or the extraction from an API
\* response emits has its gender set to one of MAN, WOMAN, OTHER
C17_GenderAlwaysValid ==
    /\ prog = "main" =>
          \A r \in Range(sub_all) \cup Range(cat_all) \cup Range(run_all) :
             r.gender \in Genders
    /\ prog = "ps" => \A r \in Range(products) : r.gender \in Genders
    /\ prog = "af" => \A r \in Range(products_to_save) : r.gender \in Genders

\* the currency a sign stands for
CurrencyOf(sign) == IF sign = "€" THEN "EUR" ELSE "USD"

\* the texts with one number and the currency sign next to it: the sign and
\* the number, or the number, a space or none, and the sign
Marked(sign, number) ==
    {<<sign>> \o number, number \o <<sign>>, number \o <<" ", sign>>}

\* C19: price parsing maps a text with a currency sign next to a number to
\* the number and the currency of the sign, a comma between the digits read
\* as the decimal separator, and a text without a number to None and the
\* default currency
C19_PriceParsing ==
    (prog = "price" /\ fn.name \in {"af_price", "ps_price"}) =>
        /\ \A sign \in {"€", "$"}, d1 \in Digits, d2 \in Digits :
             /\ fn.text \in Marked(sign, <<d1>>) =>
                   fn.out = [price |-> Decimal(<<d1>>, <<>>),
                             currency |-> CurrencyOf(sign)]
             /\ fn.text \in Marked(sign, <<d1, ",", d2>>)
                                \cup Marked(sign, <<d1, ".", d2>>) =>
                   fn.out = [price |-> Decimal(<<d1>>, <<d2>>),
                             currency |-> CurrencyOf(sign)]
        /\ (\A i \in 1..Len(fn.text) : fn.text[i] \notin Digits) =>
              /\ fn.out.price = None
              /\ fn.out.currency = (IF fn.name = "af_price" THEN fn.currency
                                    ELSE "EUR")

\* the page budget leaves room for the page at an offset
WithinBudget(offset) == max_pages = 0 \/ offset < max_pages * ITEMS_PER_PAGE

\* every read of a next page followed a full page, within the page budget
MoreOnlyAfterFullPage ==
    \A i \in 1..(Len(listing_log) - 1) :
        listing_log[i + 1].offset > listing_log[i].offset =>
            /\ listing_log[i].count = ITEMS_PER_PAGE
            /\ WithinBudget(listing_log[i + 1].offset)

\* the driver has not left its loop after a full page with the budget and
\* the safety ceiling leaving room for the next page
MoreAfterFullPage ==
    (pc \in {"sub_dedup", "ps_dedup"} /\ listing_log # <<>>) =>
        LET last == listing_log[Len(listing_log)]
        IN  ~(/\ last.count = ITEMS_PER_PAGE
              /\ WithinBudget(last.offset + ITEMS_PER_PAGE)
              /\ last.offset + ITEMS_PER_PAGE <= SafetyLimit)

\* C20: an offset-increment driver reads the next page if and only if the
\* page it has just read was not empty, the page budget max_pages is not
\* exhausted and the count returned equals the full page size: max_pages = N
\* against full pages reads N pages, and a count below the page size ends
\* the pagination
C20_MoreIffFullPageWithinBudget ==
    prog \in {"main", "ps"} => (MoreOnlyAfterFullPage /\ MoreAfterFullPage)

\* C21: in _process_product_batch no page is used by two extractions in
\* flight: two tasks that hold the semaphore never have the same page
C21_NoPageSharedInFlight ==
    prog = "af" =>
        \A i \in Running, j \in Running : i # j => tasks[i].page # tasks[j].page

\* the tasks of a batch that are not done
Unfinished == {i \in 1..Len(tasks) : tasks[i].st # "done"}

\* C22: in _process_product_batch at most max_concurrent_pages extractions
\* are in flight at any moment, and every task of the batch comes to its
\* extraction: none waits on the semaphore forever
C22_BoundedAndAllExtracted ==
    /\ [](prog = "af" => Cardinality(Running) <= max_concurrent_pages)
    /\ \A i \in 1..MaxBatch :
         (pc = "af_tasks" /\ i \in Unfinished) ~> (i \notin Unfinished)

\* a batch of three with two pages: two in flight, the third waiting
C22_Witness ==
    /\ prog = "af"
    /\ pc = "af_tasks"
    /\ max_concurrent_pages = 2
    /\ Cardinality(Running) = 2
    /\ Waiting = {3}

\* a step of _scrape_category_page whose discovery finds nothing and which
\* ends the pagination at once
AfEmptyThenDone ==
    prog = "af" /\ pc = "af_extract" /\ product_urls' = <<>> /\ pc' = "done"

\* a step of scrape_subcategory's loop whose read finds nothing and which
\* ends the pagination at once
ApiEmptyThenDone ==
    /\ prog = "main" /\ pc = "sub_loop"
    /\ fetched' # fetched
    /\ listing_log'[Len(listing_log')].count = 0
    /\ pc' = "sub_dedup"

\* C23: a pagination driver whose discovery finds nothing on a listing page
\* retries that page once, with a longer wait or a reload, before it
\* concludes DONE, on the first page and on every later one: no discovery
\* that finds nothing ends the pagination in the same step
C23_EmptyPageRetriedBeforeDone == [][~AfEmptyThenDone /\ ~ApiEmptyThenDone]_vars

\* scheme and host present
IsAbsolute(url) ==
    /\ Len(url) >= 4
    /\ url[1] \in {"http:", "https:"}
    /\ url[2] = "/" /\ url[3] = "/"
    /\ url[4] \notin {"/", "?", "#", "["}

\* C24: the list that Discovery returns for a page has no duplicates and
\* each of its elements is an absolute URL that contains the marker '/p/',
\* whichever strategy gave it
C24_DiscoveryOutput ==
    (prog = "discovery"
     /\ fn.name \in {"extract_product_urls", "get_product_urls_from_page"}) =>
        /\ \A i, j \in 1..Len(fn.out) : i # j => fn.out[i] # fn.out[j]
        /\ \A i \in 1..Len(fn.out) :
              IsAbsolute(fn.out[i]) /\ HasProductMarker(fn.out[i])

\* C25: every discovery path strips the query string and the fragment: no
\* URL discovered keeps one, so that two URLs which differ in them only are
\* discovered as one, and a canonical URL is left as it is
C25_CanonicalOnEveryPath ==
    (prog = "discovery" /\ pc = "fn_done") =>
        /\ \A i \in 1..Len(fn.out) : Canonical(fn.out[i]) = fn.out[i]
        /\ \A i, j \in 1..Len(fn.out) :
              Canonical(fn.out[i]) = Canonical(fn.out[j]) => i = j

\* the items of a page without those of one strategy
Without(items, via) == SelectSeq(items, LAMBDA item : item.via # via)

\* the data-product-url strategy raises
DataRaises(data) == \E i \in 1..Len(data) : HasProductMarker(data[i]) /\ UrlRaises(data[i])

\* C26: when one discovery strategy raises, Discovery returns the
\* deduplicated union of what the other strategies find, the failing one
\* adding nothing; it returns the empty list when all of them find nothing
C26_StrategyFailureDegrades ==
    /\ (prog = "discovery" /\ fn.name = "extract_product_urls") =>
          fn.out = urls_from_methods(Without(fn.items, fn.failing), {}, "none").urls
    /\ (/\ prog = "discovery" /\ fn.name = "get_product_urls_from_page"
        /\ fn.failing = "js" /\ ~DataRaises(fn.data)) =>
          fn.out = KeptLinks(DataLinks(fn.data,
                                       CleanLinks(fn.links \o fn.late, {}, 1),
                                       1).links, {}, 1)
    /\ (/\ prog = "discovery" /\ fn.name = "get_product_urls_from_page"
        /\ fn.failing = "none" /\ DataRaises(fn.data)) =>
          fn.out = product_urls_from(fn.links, fn.late, <<>>, FALSE)

\* every URL handed to a batch has been through its extraction
BatchesProcessed == \A u \in Range(handed) : \E o \in outcomes : o.url = u

\* C27: within one category's pagination the listing pages are handled in
\* sequence: _scrape_category_page begins the discovery of a page only after
\* the batch of the page before has been processed to its end, and the reads
\* of scrape_subcategory follow one another in the order of the offsets
C27_PagesInSequence ==
    /\ [](prog = "af"
          /\ pc \in {"af_next", "af_extract", "af_fallback", "af_retry"}
          => tasks = <<>> /\ BatchesProcessed)
    /\ [][(prog = "af" /\ pc' = "af_extract" /\ pc # "af_open") => pc = "af_next"]_vars
    /\ [][(prog = "main" /\ fetched' # fetched /\ fetched' # <<>>) =>
             \A i \in 1..Len(fetched) : fetched[i] <= fetched'[Len(fetched')]]_vars

\* the discovery of a second page begins, a batch of two behind it
C27_Witness ==
    /\ prog = "af"
    /\ pc = "af_extract"
    /\ page_num = 2
    /\ Len(handed) = 2
    /\ BatchesProcessed

\* C28: every browser launched is closed before the operation that launched
\* it returns or the process exits, on every exit path: once
\* scrape_subcategory or scrape_all_products has returned or raised, and
\* once run_daily.py has exited, no browser is open
C28_BrowsersClosedOnExit ==
    /\ (prog = "main" /\ pc \in {"run_loop", "cat_loop", "crashed", "done"}) =>
          browsers = 0
    /\ (prog = "ps" /\ pc \in {"crashed", "done"}) => browsers = 0
    /\ (prog = "af" /\ pc = "exited") => browsers = 0

\* what a download has tried when it returns
Kinds == [i \in 1..Len(fn.attempts) |-> fn.attempts[i].kind]
AlternatesTried == {fn.attempts[i].url : i \in {j \in 1..Len(fn.attempts) :
                                                  fn.attempts[j].kind = "alternate"}}

\* C29: a download of one image URL starts with a direct fetch, uses the
\* cookies of the browser context only after that was rejected, then tries at
\* most 3 alternate URLs; it stops at the first attempt that succeeds, and it
\* returns no image only after every attempt (the first fetch, the cookies
\* when there is a browser context, each alternate URL) has been made and
\* has failed
C29_ImageAttempts ==
    (prog = "image" /\ pc = "fn_done" /\ fn.impl \in {"EmbeddingGenerator", "SiglipEmbedder"}) =>
        /\ \A i \in 1..Len(Kinds) :
              /\ Kinds[i] \in {"direct", "navigate"} <=> i = 1
              /\ Kinds[i] = "cookies" => i = 2 /\ ~fn.attempts[1].ok
              /\ Kinds[i] = "alternate" => i > 1
              /\ fn.attempts[i].ok => i = Len(Kinds) /\ fn.out = "image"
        /\ Cardinality({i \in 1..Len(Kinds) : Kinds[i] = "alternate"}) <= 3
        /\ fn.out = "none" =>
              /\ Len(Kinds) >= 1
              /\ fn.browser_page => "cookies" \in Range(Kinds)
              /\ AlternatesTried = Range(alt_urls(fn.url))

\* C30: the statistics scrape returns, on success and on failure, have
\* products_saved <= products_found
C30_SavedAtMostFound ==
    (prog = "af" /\ pc \in {"done", "crashed"}) => products_saved <= products_found

====
